---- MODULE Spec2Model ----
(***************************************************************************)
(* Model of src/src/lib/db.js: the filesystem-backed JSON collection       *)
(* (JSONCollection), its promise mutex (Mutex) and the temp-file + rename  *)
(* writer (atomicWriteJSON).                                               *)
(*                                                                         *)
(* One JSONCollection with primary key "id" is modelled.  Every async      *)
(* method is a call in `calls`; a call advances from one await to the next *)
(* in one step, and the steps of different calls interleave.               *)
(***************************************************************************)
EXTENDS Integers, Sequences, FiniteSets, TLC

\* ------------------------------------------------------------- bounds
\* Caller-supplied primary keys are 0..MaxId; 0 stands for a falsy key
\* (0 or "" in JavaScript), the others for truthy keys.
MaxId == 1
\* Values of field a are 1..MaxA, values of field b are 1..MaxB.
MaxA == 0
MaxB == 2
\* The collection holds at most MaxRecs records.
MaxRecs == 2
\* At most MaxCalls calls are in flight at a time.
MaxCalls == 2
\* The sequential specifications keep MaxSeqCalls calls in flight.
MaxSeqCalls == 1
\* In the two-index specification the values of field a are 1..MaxA2.
MaxA2 == 1
\* Identifiers uuidv4() can return: MaxId+1 .. MaxId+NumUuid.
NumUuid == 1

\* ------------------------------------------------------------- values
\* JavaScript undefined (an absent property reads as undefined).
Undef == 0 - 1
\* A property that a patch or payload object does not have at all.
Absent == 0 - 2
\* JavaScript null.
Null == 0 - 3
\* The value of new Date().toISOString().
NowIso == 1

Ids == 0 .. MaxId
Uuids == (MaxId + 1) .. (MaxId + NumUuid)
AVals == 1 .. MaxA
BVals == 1 .. MaxB

\* Object.keys(v).sort() of a record
SortedKeys == <<"a", "b", "createdAt", "id", "updatedAt">>
\* v && ... : the JavaScript truthiness of a primary-key value
Truthy(v) == v # Undef /\ v # Absent /\ v # 0

\* A record of the caller (no object identity).
Rec(id, a, b, c, u) == [id |-> id, a |-> a, b |-> b, createdAt |-> c, updatedAt |-> u]

\* An object of the heap: a record with its identity oid.  Two copies with
\* the same oid in _data and _byId are one JavaScript object.
MkObj(n, r) ==
    [oid |-> n, id |-> r.id, a |-> r.a, b |-> r.b,
     createdAt |-> r.createdAt, updatedAt |-> r.updatedAt]

Plain(o) == Rec(o.id, o.a, o.b, o.createdAt, o.updatedAt)

getByPath(obj, f) == obj[f]

\* ------------------------------------------------------------- Map / Set
EmptyMap == [v \in {} |-> <<>>]

MapHas(map, k) == k \in DOMAIN map

MapSet(map, k, v) == [x \in (DOMAIN map) \cup {k} |-> IF x = k THEN v ELSE map[x]]

MapDelete(map, k) == [x \in (DOMAIN map) \ {k} |-> map[x]]

\* A JavaScript Set iterates in insertion order: a sequence without repeats.
SetHas(s, x) == \E k \in DOMAIN s : s[k] = x

SetAdd(s, x) == IF SetHas(s, x) THEN s ELSE Append(s, x)

SetDelete(s, x) == SelectSeq(s, LAMBDA y : y # x)

Min(S) == CHOOSE x \in S : \A y \in S : x <= y

Max(S) == CHOOSE x \in S : \A y \in S : y <= x

\* ------------------------------------------------------------- files
\* A path holds no file, a complete serialization, or a truncated one.
Missing == [st |-> "missing", recs |-> <<>>]

FullFile(json) == [st |-> "full", recs |-> json]

\* A file of zero length, or of white space only.
EmptyFile == [st |-> "empty", recs |-> <<>>]

\* A file holding JSON that parses to something other than an array.
NotArray == [st |-> "object", recs |-> <<>>]

\* stableStringify: every record with its keys sorted; JSON.stringify drops
\* the properties whose value is undefined.
StringifyRec(r) ==
    SelectSeq([k \in DOMAIN SortedKeys |-> <<SortedKeys[k], r[SortedKeys[k]]>>],
              LAMBDA p : p[2] # Undef)

stableStringify(recs) == [i \in DOMAIN recs |-> StringifyRec(recs[i])]

\* JSON.parse of one serialized record: a property not written reads undefined.
ParseProp(s, f) ==
    IF \E k \in DOMAIN s : s[k][1] = f
    THEN s[CHOOSE k \in DOMAIN s : s[k][1] = f][2]
    ELSE Undef

ParseRec(s) ==
    Rec(ParseProp(s, "id"), ParseProp(s, "a"), ParseProp(s, "b"),
        ParseProp(s, "createdAt"), ParseProp(s, "updatedAt"))

JSONparse(json) == [i \in DOMAIN json |-> ParseRec(json[i])]

\* The truncations of a serialization: what a crash in the middle of
\* fs.writeFile can leave at the path being written.
Truncations(json) ==
    {[st |-> "partial", recs |-> SubSeq(json, 1, n)] : n \in 0 .. (Len(json) - 1)}
        \cup {[st |-> "partial", recs |-> json]}

\* ------------------------------------------------------------- indexes
\* _indexDefs is a Map field -> {unique}: a sequence of definitions in
\* insertion order.  _indexes is a Map field -> Map(value -> Set<id>).
Def(f, u) == [field |-> f, unique |-> u]

DefFields(defs) == {defs[k].field : k \in DOMAIN defs}

\* The result of an index operation: the indexes as it left them and
\* whether it returned (ok) or threw EINDEX_UNIQUE.
IdxResult(idx, ok) == [idx |-> idx, ok |-> ok]

\* _indexInsert(rec), from the k-th definition on.
RECURSIVE IndexInsertFrom(_, _, _, _)
IndexInsertFrom(defs, k, idx, rec) ==
    IF k > Len(defs) THEN IdxResult(idx, TRUE)
    ELSE LET field == defs[k].field
             value == getByPath(rec, field)
             id    == rec.id
         IN  IF value = Undef \/ id = Undef
             THEN IndexInsertFrom(defs, k + 1, idx, rec)
             ELSE LET map  == idx[field]
                      set  == IF MapHas(map, value) THEN map[value] ELSE <<>>
                      map1 == MapSet(map, value, set)
                  IN  IF defs[k].unique /\ Len(set) > 0 /\ ~SetHas(set, id)
                      THEN IdxResult([idx EXCEPT ![field] = map1], FALSE)
                      ELSE IndexInsertFrom(defs, k + 1,
                              [idx EXCEPT ![field] = MapSet(map, value, SetAdd(set, id))],
                              rec)

_indexInsert(defs, idx, rec) == IndexInsertFrom(defs, 1, idx, rec)

\* _indexRemove(rec), from the k-th definition on.
RECURSIVE IndexRemoveFrom(_, _, _, _)
IndexRemoveFrom(defs, k, idx, rec) ==
    IF k > Len(defs) THEN idx
    ELSE LET field == defs[k].field
             value == getByPath(rec, field)
             id    == rec.id
             map   == idx[field]
         IN  IF value = Undef \/ id = Undef \/ ~MapHas(map, value)
             THEN IndexRemoveFrom(defs, k + 1, idx, rec)
             ELSE LET set == SetDelete(map[value], id)
                  IN  IndexRemoveFrom(defs, k + 1,
                          [idx EXCEPT ![field] =
                              IF Len(set) = 0 THEN MapDelete(map, value)
                              ELSE MapSet(map, value, set)],
                          rec)

_indexRemove(defs, idx, rec) == IndexRemoveFrom(defs, 1, idx, rec)

\* The first half of one round of _indexUpdate: the id leaves the key-set
\* of the old value.
DropOld(map, oldVal, id) ==
    IF oldVal # Undef /\ MapHas(map, oldVal)
    THEN LET setOld == SetDelete(map[oldVal], id)
         IN  IF Len(setOld) = 0 THEN MapDelete(map, oldVal)
             ELSE MapSet(map, oldVal, setOld)
    ELSE map

\* _indexUpdate(oldRec, newRec), from the k-th definition on.
RECURSIVE IndexUpdateFrom(_, _, _, _, _)
IndexUpdateFrom(defs, k, idx, oldRec, newRec) ==
    IF k > Len(defs) THEN IdxResult(idx, TRUE)
    ELSE LET field  == defs[k].field
             oldVal == getByPath(oldRec, field)
             newVal == getByPath(newRec, field)
             id     == newRec.id
         IN  IF oldVal = newVal
             THEN IndexUpdateFrom(defs, k + 1, idx, oldRec, newRec)
             ELSE LET map1   == DropOld(idx[field], oldVal, id)
                      setNew == IF MapHas(map1, newVal) THEN map1[newVal] ELSE <<>>
                  IN  IF newVal = Undef
                      THEN IndexUpdateFrom(defs, k + 1,
                              [idx EXCEPT ![field] = map1], oldRec, newRec)
                      ELSE IF defs[k].unique /\ Len(setNew) > 0 /\ ~SetHas(setNew, id)
                      THEN IdxResult([idx EXCEPT ![field] = map1], FALSE)
                      ELSE IndexUpdateFrom(defs, k + 1,
                              [idx EXCEPT ![field] =
                                  MapSet(map1, newVal, SetAdd(setNew, id))],
                              oldRec, newRec)

_indexUpdate(defs, idx, oldRec, newRec) == IndexUpdateFrom(defs, 1, idx, oldRec, newRec)

\* The indexes _rebuildIndexes starts from: an empty Map per definition.
EmptyIndexes(defs) == [f \in DefFields(defs) |-> EmptyMap]

\* The loop of _rebuildIndexes over this._data, from the k-th record on;
\* it stops at the first _indexInsert that throws.
RECURSIVE RebuildFrom(_, _, _, _)
RebuildFrom(defs, k, idx, recs) ==
    IF k > Len(recs) THEN IdxResult(idx, TRUE)
    ELSE LET r == _indexInsert(defs, idx, recs[k])
         IN  IF r.ok THEN RebuildFrom(defs, k + 1, r.idx, recs) ELSE r

_rebuildIndexes(defs, recs) == RebuildFrom(defs, 1, EmptyIndexes(defs), recs)

\* ------------------------------------------------------------- state
VARIABLES
    indexDefs,  \* this._indexDefs: the index definitions, in insertion order
    schema,     \* this.schema: "none", or the validator ("needB", "strict")
    limit,      \* how many calls the callers keep in flight at a time
    track,      \* whether hist.created is recorded
    loaded,     \* this._loaded
    data,       \* this._data: the record sequence (objects)
    byId,       \* this._byId: primary-key value -> object
    indexes,    \* this._indexes: field -> (value -> ordered set of ids)
    locked,     \* this._mutex.locked
    queue,      \* this._mutex.queue: the waiting calls (positions in calls)
    calls,      \* the calls in flight, in the order in which they were issued
    file,       \* the content of this.filePath
    tmp,        \* the content of the temp file of the persist in flight
    pst,        \* the persist in flight: the target before the call, the new content
    hist,       \* history: lastB, the b of the record a create committed when that
                \* is the latest change of memory (else Undef); created, the
                \* records committed by create so far; atReload, those of them
                \* committed before the latest reload() installed the file
    collections, \* JSONDatabase._collections: name -> instance (a place in instances)
    instances,  \* the JSONCollection objects constructed by the database handle
    got         \* what the latest call of JSONDatabase.collection was given and returned

vars == <<indexDefs, schema, limit, track, loaded, data, byId, indexes, locked,
          queue, calls, file, tmp, pst, hist, collections, instances, got>>

\* The database handle: no operation of a collection changes it.
mem == <<loaded, data, byId, indexes>>

conf == <<indexDefs, schema, limit, track, (<<collections, instances, got>>)>>

\* schema.safeParse(rec).success for the validators modelled: "needB" is an
\* object schema in which b is required and the timestamps are optional;
\* "strict" is a strict object schema of id, a and b, all optional, which
\* rejects an object that has any other key.
Validate(sch, rec) ==
    \/ sch = "none"
    \/ sch = "needB" /\ rec.b # Undef
    \/ sch = "strict" /\ rec.createdAt = Undef /\ rec.updatedAt = Undef

NoPersist == [active |-> FALSE, old |-> Missing, new |-> <<>>]

\* One call in flight.  kind: the method; pc: where it is suspended;
\* arr: what readJSON returned to its _ensureLoaded; hit, found, q: whether
\* upsert's findOne found a record, its key, and the query; res: how the
\* call's critical section ended; arg: the record of a create that threw;
\* opts, items, total: the options findMany was given and what it returned.
NoArg == Rec(Undef, Undef, Undef, Undef, Undef)

\* The options object of findMany; sortBy "" and limit Undef: not given.
Options(sortBy, sortDir, offset, lim) ==
    [sortBy |-> sortBy, sortDir |-> sortDir, offset |-> offset, limit |-> lim]

Call(kind, pc) == [kind |-> kind, pc |-> pc, arr |-> <<>>, found |-> Undef,
                   hit |-> FALSE, q |-> <<>>, res |-> "none", arg |-> NoArg,
                   opts |-> Options("", "asc", 0, Undef), items |-> <<>>, total |-> 0,
                   page |-> [offset |-> 0, limit |-> Null]]

\* new JSONCollection({name, dataDir, primaryKey: "id", schema, indexes}) for
\* one of the index and schema options given, over a data directory without
\* the collection's file (InitWith), or where the file holds f (InitFile).
InitFile(indexOptions, schemaOptions, inFlight, tracked, f) ==
    /\ indexDefs \in indexOptions
    /\ schema \in schemaOptions
    /\ limit = inFlight
    /\ track = tracked
    /\ loaded = FALSE
    /\ data = <<>>
    /\ byId = EmptyMap
    /\ indexes = EmptyIndexes(indexDefs)
    /\ locked = FALSE
    /\ queue = <<>>
    /\ calls = <<>>
    /\ file = f
    /\ tmp = Missing
    /\ pst = NoPersist
    /\ hist = [lastB |-> Undef, created |-> {}, atReload |-> {}]
    /\ collections = EmptyMap
    /\ instances = <<>>
    /\ got = ([inst |-> 0, name |-> "", options |-> <<>>])

InitWith(indexOptions, schemaOptions, inFlight, tracked) ==
    InitFile(indexOptions, schemaOptions, inFlight, tracked, Missing)

\* ------------------------------------------------------------- heap
UsedOids(d, m) == {d[i].oid : i \in DOMAIN d} \cup {m[k].oid : k \in DOMAIN m}

\* The identity of a newly allocated object.
NewOid(d, m) ==
    Min((1 .. (Len(d) + Cardinality(DOMAIN m) + 1)) \ UsedOids(d, m))

\* Object identities carry no information: after every step the objects of
\* _data are renumbered by position, and the objects only _byId refers to
\* follow in the order of their keys.
CanonOid(d, m, oid) ==
    IF \E i \in DOMAIN d : d[i].oid = oid
    THEN CHOOSE i \in DOMAIN d : d[i].oid = oid
    ELSE Len(d) + Cardinality({o \in {m[k].oid : k \in DOMAIN m} \ {d[i].oid : i \in DOMAIN d} :
                                 Min({k \in DOMAIN m : m[k].oid = o})
                                   <= Min({k \in DOMAIN m : m[k].oid = oid})})

CanonSeq(d, m) == [i \in DOMAIN d |-> [d[i] EXCEPT !.oid = CanonOid(d, m, d[i].oid)]]

CanonMap(d, m) == [k \in DOMAIN m |-> [m[k] EXCEPT !.oid = CanonOid(d, m, m[k].oid)]]

\* Object.assign(existing, next): every reference to the object sees next.
AssignInSeq(d, oid, next) ==
    [i \in DOMAIN d |-> IF d[i].oid = oid THEN MkObj(oid, next) ELSE d[i]]

AssignInMap(m, oid, next) ==
    [k \in DOMAIN m |-> IF m[k].oid = oid THEN MkObj(oid, next) ELSE m[k]]

\* The loop of _ensureLoaded that fills _byId: records without a primary key
\* are skipped, a later record with the same key replaces an earlier one.
BuildById(d) ==
    [k \in {d[i].id : i \in DOMAIN d} \ {Undef} |->
        d[Max({i \in DOMAIN d : d[i].id = k})]]

\* Every primary-key value the collection, its file or a call refers to.
UsedIds ==
    {data[i].id : i \in DOMAIN data} \cup DOMAIN byId
      \cup {byId[k].id : k \in DOMAIN byId}
      \cup UNION {UNION {{indexes[f][v][n] : n \in DOMAIN indexes[f][v]} :
                             v \in DOMAIN indexes[f]} : f \in DOMAIN indexes}
      \cup {ParseRec(file.recs[i]).id : i \in DOMAIN file.recs}
      \cup UNION {{calls[c].arr[i].id : i \in DOMAIN calls[c].arr} : c \in DOMAIN calls}
      \cup {calls[c].found : c \in DOMAIN calls}

\* uuidv4(): an identifier never seen before.
FreshUuids == Uuids \ UsedIds

\* ------------------------------------------------------------- inputs
\* The records callers pass to create and replaceAll, without timestamps.
RecsOver(I, A, B) == {Rec(id, a, b, Undef, Undef) : id \in I, a \in A, b \in B}

\* The patches callers pass to update and upsert: each property is not in
\* the patch (Absent), explicitly undefined, or a value.
PatchesOver(I, A, B) == {Rec(id, a, b, Absent, Absent) : id \in I, a \in A, b \in B}

\* The queries modelled: one equality on an indexed field, as a sequence of
\* <<key, value>> in the key order of the query object.
Queries == {<< <<"a", v>> >> : v \in AVals} \cup {<< <<"b", v>> >> : v \in BVals}

RECURSIVE SeqsUpTo(_, _)
SeqsUpTo(S, n) ==
    IF n = 0 THEN {<<>>}
    ELSE LET shorter == SeqsUpTo(S, n - 1)
         IN  shorter \cup {Append(q, x) : q \in {t \in shorter : Len(t) = n - 1}, x \in S}

\* ------------------------------------------------------------- handlers
\* How the function passed to this._mutex.run ended: res is "ok" (it goes
\* on to persist), "false" (remove found nothing) or the code of the
\* DatabaseError thrown; d, m, idx are _data, _byId, _indexes as it left them.
Out(res, d, m, idx) == [res |-> res, data |-> d, byId |-> m, indexes |-> idx]

\* {...existing, ...patch, updatedAt: now}
Merge(e, p) ==
    Rec(IF p.id = Absent THEN e.id ELSE p.id,
        IF p.a = Absent THEN e.a ELSE p.a,
        IF p.b = Absent THEN e.b ELSE p.b,
        IF p.createdAt = Absent THEN e.createdAt ELSE p.createdAt,
        NowIso)

\* A create that pushes the record before it maintains the indexes.
CreateBodyPushFirst(record, uuid) ==
    IF ~Validate(schema, record)
    THEN Out("EVALIDATION", data, byId, indexes)
    ELSE LET id  == IF record.id = Undef THEN uuid ELSE record.id
             rec == Rec(id, record.a, record.b,
                        IF record.createdAt = Undef THEN NowIso ELSE record.createdAt,
                        NowIso)
         IN  IF MapHas(byId, id)
             THEN Out("EPRIMARY_DUP", data, byId, indexes)
             ELSE LET r == _indexInsert(indexDefs, indexes, rec)
                      obj == MkObj(NewOid(data, byId), rec)
                  IN  Out(IF r.ok THEN "ok" ELSE "EINDEX_UNIQUE",
                          Append(data, obj), MapSet(byId, id, obj), r.idx)

\* create(record), the body run under the mutex; uuid is what uuidv4() returns.
CreateBody(record, uuid) ==
    IF ~Validate(schema, record)
    THEN Out("EVALIDATION", data, byId, indexes)
    ELSE LET id  == IF record.id = Undef THEN uuid ELSE record.id
             rec == Rec(id, record.a, record.b,
                        IF record.createdAt = Undef THEN NowIso ELSE record.createdAt,
                        NowIso)
         IN  IF MapHas(byId, id)
             THEN Out("EPRIMARY_DUP", data, byId, indexes)
             ELSE LET r == _indexInsert(indexDefs, indexes, rec)
                      obj == MkObj(NewOid(data, byId), rec)
                  IN  IF ~r.ok
                      THEN Out("EINDEX_UNIQUE", data, byId, r.idx)
                      ELSE Out("ok", Append(data, obj), MapSet(byId, id, obj), r.idx)

\* An update that goes on to persist when it finds no record.
UpdateBodyNoLookup(id, patch) ==
    IF ~MapHas(byId, id)
    THEN Out("ok", data, byId, indexes)
    ELSE LET existing == byId[id]
             next     == Merge(existing, patch)
             r        == _indexUpdate(indexDefs, indexes, existing, next)
         IN  IF Truthy(patch.id) /\ patch.id # id
             THEN Out("EPRIMARY_IMMUTABLE", data, byId, indexes)
             ELSE IF ~Validate(schema, next)
             THEN Out("EVALIDATION", data, byId, indexes)
             ELSE IF ~r.ok
             THEN Out("EINDEX_UNIQUE", data, byId, r.idx)
             ELSE Out("ok", AssignInSeq(data, existing.oid, next),
                      AssignInMap(byId, existing.oid, next), r.idx)

\* update(id, patch), the body run under the mutex.
UpdateBody(id, patch) ==
    IF ~MapHas(byId, id)
    THEN Out("ENOTFOUND", data, byId, indexes)
    ELSE LET existing == byId[id]
             next     == Merge(existing, patch)
             r        == _indexUpdate(indexDefs, indexes, existing, next)
         IN  IF Truthy(patch.id) /\ patch.id # id
             THEN Out("EPRIMARY_IMMUTABLE", data, byId, indexes)
             ELSE IF ~Validate(schema, next)
             THEN Out("EVALIDATION", data, byId, indexes)
             ELSE IF ~r.ok
             THEN Out("EINDEX_UNIQUE", data, byId, r.idx)
             ELSE Out("ok", AssignInSeq(data, existing.oid, next),
                      AssignInMap(byId, existing.oid, next), r.idx)

\* remove(id), the body run under the mutex.
RemoveBody(id) ==
    IF ~MapHas(byId, id)
    THEN Out("false", data, byId, indexes)
    ELSE Out("ok", SelectSeq(data, LAMBDA r : r.id # id), MapDelete(byId, id),
             _indexRemove(indexDefs, indexes, byId[id]))

\* records.map(...) of replaceAll: missing keys and timestamps are filled in;
\* the k-th record without a key gets the k-th fresh uuid.
Normalize(records, uuids) ==
    [i \in DOMAIN records |->
        LET r == records[i]
            n == Cardinality({j \in 1 .. i : records[j].id = Undef})
        IN  Rec(IF r.id = Undef THEN uuids[n] ELSE r.id, r.a, r.b,
                IF r.createdAt = Undef THEN NowIso ELSE r.createdAt,
                IF r.updatedAt = Undef THEN NowIso ELSE r.updatedAt)]

\* A replaceAll that swaps the new records in before it looks for duplicate keys.
ReplaceAllBodySwapFirst(records, uuids) ==
    LET normalized == Normalize(records, uuids)
        objs == [i \in DOMAIN normalized |-> MkObj(i, normalized[i])]
        r    == _rebuildIndexes(indexDefs, objs)
    IN  IF \E i \in DOMAIN normalized : ~Validate(schema, normalized[i])
        THEN Out("EVALIDATION", data, byId, indexes)
        ELSE IF \E i, j \in DOMAIN normalized : i < j /\ normalized[i].id = normalized[j].id
        THEN Out("EPRIMARY_DUP", objs, BuildById(objs), indexes)
        ELSE Out(IF r.ok THEN "ok" ELSE "EINDEX_UNIQUE", objs, BuildById(objs), r.idx)

\* replaceAll(records), the body run under the mutex.
ReplaceAllBody(records, uuids) ==
    LET normalized == Normalize(records, uuids)
        objs == [i \in DOMAIN normalized |-> MkObj(i, normalized[i])]
        r    == _rebuildIndexes(indexDefs, objs)
    IN  IF \E i \in DOMAIN normalized : ~Validate(schema, normalized[i])
        THEN Out("EVALIDATION", data, byId, indexes)
        ELSE IF \E i, j \in DOMAIN normalized : i < j /\ normalized[i].id = normalized[j].id
        THEN Out("EPRIMARY_DUP", data, byId, indexes)
        ELSE Out(IF r.ok THEN "ok" ELSE "EINDEX_UNIQUE", objs, BuildById(objs), r.idx)

\* Object.keys(query).find((f) => this._indexDefs.has(f)); "" when there is none
IndexedField(defs, query) ==
    LET ks == {k \in DOMAIN query : query[k][1] \in DefFields(defs)}
    IN  IF ks = {} THEN "" ELSE query[Min(ks)][1]

QueryValue(query, f) == query[CHOOSE k \in DOMAIN query : query[k][1] = f][2]

matchesQuery(rec, query) ==
    \A k \in DOMAIN query : getByPath(rec, query[k][1]) = query[k][2]

\* The candidates of findMany: the records an index names, in the order of
\* its key-set, or the whole record sequence.
Candidates(query) ==
    LET f == IndexedField(indexDefs, query)
    IN  IF f = "" THEN data
        ELSE LET val == QueryValue(query, f)
                 ids == IF MapHas(indexes[f], val) THEN indexes[f][val] ELSE <<>>
                 known == SelectSeq(ids, LAMBDA id : MapHas(byId, id))
             IN  [k \in DOMAIN known |-> byId[known[k]]]

\* findOne(query): the first match, as [hit, id].
findOne(query) ==
    LET filtered == SelectSeq(Candidates(query), LAMBDA r : matchesQuery(r, query))
    IN  IF Len(filtered) = 0 THEN [hit |-> FALSE, id |-> Undef]
        ELSE [hit |-> TRUE, id |-> filtered[1].id]

\* { ...query, ...payload } of upsert
QueryMerge(query, payload) ==
    LET q(f) == IF \E k \in DOMAIN query : query[k][1] = f THEN QueryValue(query, f) ELSE Undef
        m(f) == IF payload[f] = Absent THEN q(f) ELSE payload[f]
    IN  Rec(m("id"), m("a"), m("b"), m("createdAt"), m("updatedAt"))

\* ------------------------------------------------------------- mutex
\* A lock() that does not keep the resolver of a caller that has to wait.
MutexLockNoQueue(lk, q, i) ==
    IF ~lk THEN [locked |-> TRUE, queue |-> q, acquired |-> TRUE]
    ELSE [locked |-> lk, queue |-> q, acquired |-> FALSE]

\* Mutex.lock() by call i: [locked, queue, acquired]
MutexLock(lk, q, i) ==
    IF ~lk THEN [locked |-> TRUE, queue |-> q, acquired |-> TRUE]
    ELSE [locked |-> lk, queue |-> Append(q, i), acquired |-> FALSE]

\* An unlock that clears `locked` also when it hands the mutex over.
MutexUnlockClear(lk, q) ==
    IF Len(q) > 0 THEN [locked |-> FALSE, queue |-> Tail(q), next |-> q[1]]
    ELSE [locked |-> FALSE, queue |-> q, next |-> 0]

\* Mutex.unlock(): [locked, queue, next]; next is the call whose lock()
\* promise is resolved, 0 when nobody waits.
MutexUnlock(lk, q) ==
    IF Len(q) > 0 THEN [locked |-> lk, queue |-> Tail(q), next |-> q[1]]
    ELSE [locked |-> FALSE, queue |-> q, next |-> 0]

\* ------------------------------------------------------------- calls
RemoveAt(seq, i) == [k \in 1 .. (Len(seq) - 1) |-> IF k < i THEN seq[k] ELSE seq[k + 1]]

\* The waiting calls after call i left `calls`: later calls move up by one.
Renumber(q, i) == [k \in DOMAIN q |-> IF q[k] > i THEN q[k] - 1 ELSE q[k]]

\* Where a call continues once its await this._ensureLoaded() returns.
AfterLoad(kind) ==
    CASE kind \in {"create", "update", "remove", "upsertUpdate", "upsertCreate"} -> "lock"
      [] kind = "upsert" -> "find"
      [] kind \in {"all", "read", "findMany"} -> "ret"
      [] kind = "reload" -> "done"

InCritical(c) == c.pc \in {"cs", "write", "rename", "release"}

\* A call's promise settles: it leaves `calls`.
Settle(i) ==
    /\ calls' = RemoveAt(calls, i)
    /\ queue' = Renumber(queue, i)

\* create, update, remove, upsert or all is called: it runs up to its first
\* await, inside _ensureLoaded (which returns at once when _loaded).
Invoke(kind) ==
    /\ Len(calls) < limit
    /\ calls' = Append(calls, Call(kind, IF loaded THEN AfterLoad(kind) ELSE "readFile"))
    /\ UNCHANGED <<conf, mem, locked, queue, file, tmp, pst, hist>>

\* replaceAll is called: it calls this._mutex.run, hence lock(), at once.
InvokeReplaceAll ==
    /\ Len(calls) < limit
    /\ LET l == MutexLock(locked, queue, Len(calls) + 1)
       IN  /\ locked' = l.locked
           /\ queue' = l.queue
           /\ calls' = Append(calls, Call("replaceAll", IF l.acquired THEN "cs" ELSE "queued"))
    /\ UNCHANGED <<conf, mem, file, tmp, pst, hist>>

\* A readJSON without fallback: it throws when there is no file or the file
\* is empty.
ReadFileNoFallback(i, ok) ==
    /\ calls[i].pc = "readFile"
    /\ IF ok /\ file.st = "full"
       THEN /\ calls' = [calls EXCEPT ![i].pc = "install",
                                      ![i].arr = JSONparse(file.recs)]
            /\ UNCHANGED queue
       ELSE Settle(i)
    /\ UNCHANGED <<conf, mem, locked, file, tmp, pst, hist>>

\* readJSON(this.filePath, []) returns to _ensureLoaded of call i (the
\* fallback [] when the file is missing or empty), or throws (an I/O error,
\* or JSON.parse on a truncated file); _ensureLoaded throws when what it
\* returned is not an array.
ReadFile(i, ok) ==
    /\ calls[i].pc = "readFile"
    /\ IF ok /\ file.st \notin {"partial", "object"}
       THEN /\ calls' = [calls EXCEPT ![i].pc = "install",
                                      ![i].arr = JSONparse(file.recs)]
            /\ UNCHANGED queue
       ELSE Settle(i)
    /\ UNCHANGED <<conf, mem, locked, file, tmp, pst, hist>>

\* _ensureLoaded of call i, from this._data = arr to its end.
Install(i) ==
    /\ calls[i].pc = "install"
    /\ LET arr  == calls[i].arr
           objs == [k \in DOMAIN arr |-> MkObj(k, arr[k])]
           r    == _rebuildIndexes(indexDefs, objs)
       IN  /\ data' = objs
           /\ byId' = BuildById(objs)
           /\ indexes' = r.idx
           /\ IF r.ok
              THEN /\ loaded' = TRUE
                   /\ calls' = [calls EXCEPT ![i].pc = AfterLoad(calls[i].kind),
                                             ![i].arr = <<>>]
                   /\ UNCHANGED queue
              ELSE /\ UNCHANGED loaded
                   /\ Settle(i)
    /\ UNCHANGED <<conf, locked, file, tmp, pst>>
    /\ hist' = [hist EXCEPT !.lastB = Undef,
                            !.atReload = IF calls[i].kind = "reload" THEN hist.created
                                         ELSE hist.atReload]

\* all() of call i returns this._data.map(clone).
ReturnAll(i) ==
    /\ calls[i].pc = "ret" /\ calls[i].kind = "all"
    /\ Settle(i)
    /\ UNCHANGED <<conf, mem, locked, file, tmp, pst, hist>>

\* clone(obj): JSON.parse(JSON.stringify(obj)).
clone(obj) == ParseRec(StringifyRec(Plain(obj)))

\* read(id) of call i returns: the call keeps the id asked for (found),
\* whether a record was returned (hit) and the record (arg).
ReadReturn(i, id) ==
    /\ calls[i].pc = "ret" /\ calls[i].kind = "read"
    /\ calls' = [calls EXCEPT ![i].pc = "done", ![i].found = id,
                              ![i].hit = MapHas(byId, id),
                              ![i].arg = IF MapHas(byId, id) THEN clone(byId[id])
                                         ELSE NoArg]
    /\ UNCHANGED <<conf, mem, locked, queue, file, tmp, pst, hist>>

\* The comparator findMany passes to sort; dir is 1 or -1.
Compare(x, y, sortBy, dir) ==
    LET av == getByPath(x, sortBy)
        bv == getByPath(y, sortBy)
    IN  IF av = Undef /\ bv = Undef THEN 0
        ELSE IF av = Undef THEN 0 - dir
        ELSE IF bv = Undef THEN dir
        ELSE IF av < bv THEN 0 - dir
        ELSE IF av > bv THEN dir
        ELSE 0

\* Array.prototype.sort with that comparator: a stable sort.
RECURSIVE SortRecs(_, _, _)
SortRecs(s, sortBy, dir) ==
    IF Len(s) <= 1 THEN s
    ELSE LET init == SortRecs(SubSeq(s, 1, Len(s) - 1), sortBy, dir)
             x    == s[Len(s)]
             n    == Cardinality({k \in DOMAIN init : Compare(init[k], x, sortBy, dir) <= 0})
         IN  SubSeq(init, 1, n) \o <<x>> \o SubSeq(init, n + 1, Len(init))

\* Array.prototype.slice(from, to) for non-negative from and to.
Slice(s, from, to) == SubSeq(s, from + 1, Min({to, Len(s)}))

\* findMany(query, {sortBy, sortDir, offset, limit}) once loaded; sortBy ""
\* and lim Undef stand for options that are not given.
findMany(query, sortBy, sortDir, offset, lim) ==
    LET f == IndexedField(indexDefs, query)
        ids == IF f # "" /\ MapHas(indexes[f], QueryValue(query, f))
               THEN indexes[f][QueryValue(query, f)] ELSE <<>>
        filtered == SelectSeq(Candidates(query), LAMBDA r : matchesQuery(r, query))
        sorted == IF sortBy # ""
                  THEN SortRecs(filtered, sortBy, IF sortDir = "desc" THEN 0 - 1 ELSE 1)
                  ELSE filtered
        sliced == IF lim # Undef THEN Slice(sorted, offset, offset + lim)
                  ELSE Slice(sorted, offset, Len(sorted))
    IN  IF f # "" /\ Len(ids) = 0
        THEN [items |-> <<>>, total |-> 0, offset |-> offset,
              limit |-> IF lim \in {Undef, 0} THEN Null ELSE lim]
        ELSE [items |-> [k \in DOMAIN sliced |-> clone(sliced[k])],
              total |-> Len(sorted), offset |-> offset,
              limit |-> IF lim # Undef THEN lim ELSE Null]

\* findMany of call i returns: the call keeps the query, the options and
\* the result.
FindManyReturn(i, query, sortBy, sortDir, offset, lim) ==
    /\ calls[i].pc = "ret" /\ calls[i].kind = "findMany"
    /\ LET r == findMany(query, sortBy, sortDir, offset, lim)
       IN  calls' = [calls EXCEPT ![i].pc = "done", ![i].q = query,
                                  ![i].opts = Options(sortBy, sortDir, offset, lim),
                                  ![i].items = r.items, ![i].total = r.total,
                                  ![i].page = [offset |-> r.offset, limit |-> r.limit]]
    /\ UNCHANGED <<conf, mem, locked, queue, file, tmp, pst, hist>>

\* reload() is called: this._loaded = false, then _ensureLoaded up to its
\* first await.
InvokeReload ==
    /\ Len(calls) < limit
    /\ loaded' = FALSE
    /\ calls' = Append(calls, Call("reload", "readFile"))
    /\ UNCHANGED <<conf, data, byId, indexes, locked, queue, file, tmp, pst, hist>>

\* The promise of call i (read, findMany, reload) resolves.
Resolve(i) ==
    /\ calls[i].pc = "done"
    /\ Settle(i)
    /\ UNCHANGED <<conf, mem, locked, file, tmp, pst, hist>>

\* upsert of call i: findOne(query) has returned, and upsert calls update or
\* create, which runs up to its await this._ensureLoaded().
Find(i, query) ==
    /\ calls[i].pc = "find"
    /\ LET f == findOne(query)
           kind == IF f.hit THEN "upsertUpdate" ELSE "upsertCreate"
       IN  calls' = [calls EXCEPT ![i].kind = kind,
                                  ![i].pc = IF loaded THEN "lock" ELSE "readFile",
                                  ![i].hit = f.hit, ![i].found = f.id, ![i].q = query]
    /\ UNCHANGED <<conf, mem, locked, queue, file, tmp, pst, hist>>

\* this._mutex.run(fn) of call i: lock().
Lock(i) ==
    /\ calls[i].pc = "lock"
    /\ LET l == MutexLock(locked, queue, i)
       IN  /\ locked' = l.locked
           /\ queue' = l.queue
           /\ calls' = [calls EXCEPT ![i].pc = IF l.acquired THEN "cs" ELSE "queued"]
    /\ UNCHANGED <<conf, mem, file, tmp, pst, hist>>

\* The function of call i run under the mutex ended as `out`: it throws or
\* returns (pc release), or it calls this._persist() (pc write), that is
\* atomicWriteJSON(this.filePath, this._data) up to its fs.writeFile.
Critical(i, out, arg) ==
    /\ data' = CanonSeq(out.data, out.byId)
    /\ byId' = CanonMap(out.data, out.byId)
    /\ indexes' = out.indexes
    /\ IF out.res = "ok"
       THEN /\ calls' = [calls EXCEPT ![i].pc = "write"]
            /\ pst' = [active |-> TRUE, old |-> file,
                       new |-> stableStringify(out.data)]
            /\ tmp' = Missing
       ELSE /\ calls' = [calls EXCEPT ![i].pc = "release", ![i].res = out.res,
                                      ![i].arg = arg]
            /\ UNCHANGED <<pst, tmp>>
    /\ UNCHANGED <<conf, loaded, locked, queue, file>>

\* create(record) of call i under the mutex.
CreateStep(i, record) ==
    /\ Len(data) < MaxRecs
    /\ record.id = Undef => FreshUuids # {}
    /\ LET out == CreateBody(record, IF record.id = Undef THEN Min(FreshUuids) ELSE Undef)
       IN  /\ Critical(i, out, record)
           /\ hist' = IF out.res = "ok"
                      THEN [lastB |-> record.b,
                            created |-> IF track
                                        THEN hist.created \cup {Plain(out.data[Len(out.data)])}
                                        ELSE hist.created,
                            atReload |-> hist.atReload]
                      ELSE hist

CreateCS(i, record) ==
    /\ calls[i].pc = "cs" /\ calls[i].kind = "create"
    /\ CreateStep(i, record)

UpdateCS(i, id, patch) ==
    /\ calls[i].pc = "cs" /\ calls[i].kind = "update"
    /\ Critical(i, UpdateBody(id, patch), NoArg)
    /\ hist' = [hist EXCEPT !.lastB = Undef]

RemoveCS(i, id) ==
    /\ calls[i].pc = "cs" /\ calls[i].kind = "remove"
    /\ Critical(i, RemoveBody(id), NoArg)
    /\ hist' = [hist EXCEPT !.lastB = Undef]

\* The k smallest fresh uuids, in order.
RECURSIVE FirstFresh(_, _)
FirstFresh(S, k) ==
    IF k = 0 \/ S = {} THEN <<>> ELSE <<Min(S)>> \o FirstFresh(S \ {Min(S)}, k - 1)

ReplaceAllCS(i, records) ==
    /\ calls[i].pc = "cs" /\ calls[i].kind = "replaceAll"
    /\ Cardinality({j \in DOMAIN records : records[j].id = Undef}) <= Cardinality(FreshUuids)
    /\ Critical(i, ReplaceAllBody(records, FirstFresh(FreshUuids, Len(records))), NoArg)
    /\ hist' = [hist EXCEPT !.lastB = Undef]

\* An upsert that looks its match up again inside the critical section.
UpsertCSOneSection(i, payload) ==
    /\ calls[i].pc = "cs" /\ calls[i].kind \in {"upsertUpdate", "upsertCreate"}
    /\ IF findOne(calls[i].q).hit
       THEN /\ Critical(i, UpdateBody(findOne(calls[i].q).id, payload), NoArg)
            /\ hist' = [hist EXCEPT !.lastB = Undef]
       ELSE CreateStep(i, QueryMerge(calls[i].q, payload))

\* upsert of call i, inside the update or create it called.
UpsertCS(i, payload) ==
    /\ calls[i].pc = "cs" /\ calls[i].kind \in {"upsertUpdate", "upsertCreate"}
    /\ IF calls[i].kind = "upsertUpdate"
       THEN /\ Critical(i, UpdateBody(calls[i].found, payload), NoArg)
            /\ hist' = [hist EXCEPT !.lastB = Undef]
       ELSE CreateStep(i, QueryMerge(calls[i].q, payload))

\* A persist that writes the target file in place.
WritePathInPlace == "file"

\* The path fs.writeFile of atomicWriteJSON writes to.
WritePath == "tmp"

\* fs.writeFile(tmp, json) of call i returns, or throws an I/O error.
Write(i, ok) ==
    /\ calls[i].pc = "write"
    /\ IF ok
       THEN /\ calls' = [calls EXCEPT ![i].pc = "rename"]
            /\ IF WritePath = "tmp"
               THEN tmp' = FullFile(pst.new) /\ UNCHANGED file
               ELSE file' = FullFile(pst.new) /\ UNCHANGED tmp
       ELSE /\ calls' = [calls EXCEPT ![i].pc = "release", ![i].res = "EIO"]
            /\ UNCHANGED <<file, tmp>>
    /\ UNCHANGED <<conf, mem, locked, queue, pst, hist>>

\* fs.rename(tmp, filePath) of call i returns, or throws an I/O error.
Rename(i, ok) ==
    /\ calls[i].pc = "rename"
    /\ IF ok /\ tmp.st # "missing"
       THEN /\ file' = tmp
            /\ tmp' = Missing
            /\ calls' = [calls EXCEPT ![i].pc = "release", ![i].res = "ok"]
       ELSE /\ calls' = [calls EXCEPT ![i].pc = "release", ![i].res = "EIO"]
            /\ UNCHANGED <<file, tmp>>
    /\ UNCHANGED <<conf, mem, locked, queue, pst, hist>>

\* A run() without finally: unlock() is skipped when fn has thrown an I/O
\* error.
ReleaseUnlessThrown(i) ==
    /\ calls[i].pc = "release"
    /\ LET u == IF calls[i].res = "EIO" THEN [locked |-> locked, queue |-> queue, next |-> 0]
                ELSE MutexUnlock(locked, queue)
           woken == IF u.next = 0 THEN calls ELSE [calls EXCEPT ![u.next].pc = "cs"]
       IN  /\ locked' = u.locked
           /\ calls' = RemoveAt(woken, i)
           /\ queue' = Renumber(u.queue, i)
    /\ pst' = NoPersist
    /\ UNCHANGED <<conf, mem, file, tmp, hist>>

\* The finally of Mutex.run of call i: unlock(), and the call settles.
Release(i) ==
    /\ calls[i].pc = "release"
    /\ LET u == MutexUnlock(locked, queue)
           woken == IF u.next = 0 THEN calls ELSE [calls EXCEPT ![u.next].pc = "cs"]
       IN  /\ locked' = u.locked
           /\ calls' = RemoveAt(woken, i)
           /\ queue' = Renumber(u.queue, i)
    /\ pst' = NoPersist
    /\ UNCHANGED <<conf, mem, file, tmp, hist>>

\* The process dies and is started again: memory is lost, the files stay.  A
\* write that was in progress leaves a truncated file at the path it wrote.
Crash ==
    /\ calls # <<>>
    /\ loaded' = FALSE
    /\ data' = <<>>
    /\ byId' = EmptyMap
    /\ indexes' = EmptyIndexes(indexDefs)
    /\ locked' = FALSE
    /\ queue' = <<>>
    /\ calls' = <<>>
    /\ pst' = NoPersist
    /\ IF \E i \in DOMAIN calls : calls[i].pc = "write"
       THEN \E t \in Truncations(pst.new) \cup {Missing} :
               IF WritePath = "tmp" THEN tmp' = t /\ UNCHANGED file
               ELSE file' = t /\ UNCHANGED tmp
       ELSE UNCHANGED <<file, tmp>>
    /\ UNCHANGED conf
    /\ hist' = [hist EXCEPT !.lastB = Undef]

\* ------------------------------------------------------------- specifications
\* Concurrent calls: up to MaxCalls calls in flight on a collection with a
\* unique index on b; b has one value, no patch names the key, and every
\* file-system call succeeds.
ConcRecs == RecsOver(Ids, {Undef}, {Undef, 1})

ConcPatches == PatchesOver({Absent}, {Absent}, {Undef, 1})

Init == InitWith({<<Def("b", TRUE)>>}, {"none"}, MaxCalls, FALSE)

Next ==
    \/ \E kind \in {"create", "update", "remove", "all"} : Invoke(kind)
    \/ InvokeReplaceAll
    \/ \E i \in DOMAIN calls : ReadFile(i, TRUE)
    \/ \E i \in DOMAIN calls : Install(i)
    \/ \E i \in DOMAIN calls : ReturnAll(i)
    \/ \E i \in DOMAIN calls : Lock(i)
    \/ \E i \in DOMAIN calls, record \in ConcRecs : CreateCS(i, record)
    \/ \E i \in DOMAIN calls, id \in Ids, patch \in ConcPatches : UpdateCS(i, id, patch)
    \/ \E i \in DOMAIN calls, id \in Ids : RemoveCS(i, id)
    \/ \E i \in DOMAIN calls, records \in SeqsUpTo(ConcRecs, MaxRecs) : ReplaceAllCS(i, records)
    \/ \E i \in DOMAIN calls : Write(i, TRUE)
    \/ \E i \in DOMAIN calls : Rename(i, TRUE)
    \/ \E i \in DOMAIN calls : Release(i)

Spec == Init /\ [][Next]_vars

\* One call at a time, with every kind of input: falsy and missing keys,
\* patches that name the key or unset a field, with and without a schema.
SeqRecs == RecsOver(Ids \cup {Undef}, AVals \cup {Undef}, BVals \cup {Undef})

SeqPatches ==
    PatchesOver(Ids \cup {Absent}, AVals \cup {Absent, Undef}, BVals \cup {Absent, Undef})

InitSeq == InitWith({<<Def("b", TRUE)>>}, {"none", "needB"}, MaxSeqCalls, FALSE)

NextSeq ==
    \/ \E kind \in {"create", "update", "remove", "upsert", "all"} : Invoke(kind)
    \/ InvokeReplaceAll
    \/ \E i \in DOMAIN calls : ReadFile(i, TRUE)
    \/ \E i \in DOMAIN calls : Install(i)
    \/ \E i \in DOMAIN calls : ReturnAll(i)
    \/ \E i \in DOMAIN calls, query \in Queries : Find(i, query)
    \/ \E i \in DOMAIN calls : Lock(i)
    \/ \E i \in DOMAIN calls, record \in SeqRecs : CreateCS(i, record)
    \/ \E i \in DOMAIN calls, id \in Ids \cup Uuids, patch \in SeqPatches : UpdateCS(i, id, patch)
    \/ \E i \in DOMAIN calls, id \in Ids \cup Uuids : RemoveCS(i, id)
    \/ \E i \in DOMAIN calls, records \in SeqsUpTo(SeqRecs, MaxRecs) : ReplaceAllCS(i, records)
    \/ \E i \in DOMAIN calls, payload \in SeqPatches : UpsertCS(i, payload)
    \/ \E i \in DOMAIN calls : Write(i, TRUE)
    \/ \E i \in DOMAIN calls : Rename(i, TRUE)
    \/ \E i \in DOMAIN calls : Release(i)

SpecSeq == InitSeq /\ [][NextSeq]_vars

\* One call at a time, without replaceAll and without patches that name the
\* primary key; read included.
CrudPatches == PatchesOver({Absent}, AVals \cup {Absent, Undef}, BVals \cup {Absent, Undef})

NextCrud ==
    \/ \E kind \in {"create", "update", "remove", "upsert", "all", "read"} : Invoke(kind)
    \/ \E i \in DOMAIN calls : ReadFile(i, TRUE)
    \/ \E i \in DOMAIN calls : Install(i)
    \/ \E i \in DOMAIN calls : ReturnAll(i)
    \/ \E i \in DOMAIN calls, id \in Ids \cup Uuids : ReadReturn(i, id)
    \/ \E i \in DOMAIN calls : Resolve(i)
    \/ \E i \in DOMAIN calls, query \in Queries : Find(i, query)
    \/ \E i \in DOMAIN calls : Lock(i)
    \/ \E i \in DOMAIN calls, record \in SeqRecs : CreateCS(i, record)
    \/ \E i \in DOMAIN calls, id \in Ids \cup Uuids, patch \in CrudPatches : UpdateCS(i, id, patch)
    \/ \E i \in DOMAIN calls, id \in Ids \cup Uuids : RemoveCS(i, id)
    \/ \E i \in DOMAIN calls, payload \in CrudPatches : UpsertCS(i, payload)
    \/ \E i \in DOMAIN calls : Write(i, TRUE)
    \/ \E i \in DOMAIN calls : Rename(i, TRUE)
    \/ \E i \in DOMAIN calls : Release(i)

SpecCrud == InitSeq /\ [][NextCrud]_vars

\* Concurrent create calls only, the records they commit being recorded.
InitCreates == InitWith({<<Def("b", TRUE)>>}, {"none"}, MaxCalls, TRUE)

NextCreates ==
    \/ Invoke("create")
    \/ \E i \in DOMAIN calls : ReadFile(i, TRUE)
    \/ \E i \in DOMAIN calls : Install(i)
    \/ \E i \in DOMAIN calls : Lock(i)
    \/ \E i \in DOMAIN calls, record \in RecsOver(Ids, {Undef}, BVals \cup {Undef}) :
          CreateCS(i, record)
    \/ \E i \in DOMAIN calls : Write(i, TRUE)
    \/ \E i \in DOMAIN calls : Rename(i, TRUE)
    \/ \E i \in DOMAIN calls : Release(i)

SpecCreates == InitCreates /\ [][NextCreates]_vars

\* Concurrent calls with faults: file-system calls can fail and the process
\* can die at any point and be started again.
NextCrash ==
    \/ \E kind \in {"create", "remove", "all"} : Invoke(kind)
    \/ \E i \in DOMAIN calls, ok \in BOOLEAN : ReadFile(i, ok)
    \/ \E i \in DOMAIN calls : Install(i)
    \/ \E i \in DOMAIN calls : ReturnAll(i)
    \/ \E i \in DOMAIN calls : Lock(i)
    \/ \E i \in DOMAIN calls, record \in ConcRecs : CreateCS(i, record)
    \/ \E i \in DOMAIN calls, id \in Ids : RemoveCS(i, id)
    \/ \E i \in DOMAIN calls, ok \in BOOLEAN : Write(i, ok)
    \/ \E i \in DOMAIN calls, ok \in BOOLEAN : Rename(i, ok)
    \/ \E i \in DOMAIN calls : Release(i)
    \/ Crash

SpecCrash == Init /\ [][NextCrash]_vars

\* ------------------------------------------------------------- properties
\* The keys in the key-set of value v of the index on f.
KeySet(f, v) ==
    IF MapHas(indexes[f], v) THEN {indexes[f][v][n] : n \in DOMAIN indexes[f][v]} ELSE {}

\* The defined values of f that a record or the index on f has.
ValuesOf(f) ==
    (DOMAIN indexes[f] \cup {getByPath(data[k], f) : k \in DOMAIN data}) \ {Undef}

\* Every key-set holds exactly the keys of the records of _data that have
\* its value.
IndexConsistent ==
    \A f \in DOMAIN indexes : \A v \in ValuesOf(f) :
        KeySet(f, v) = {data[k].id : k \in {j \in DOMAIN data : getByPath(data[j], f) = v}}

\* Call i runs its critical section in this step and throws.
Throws(i) ==
    /\ calls[i].pc = "cs"
    /\ Len(calls') = Len(calls)
    /\ calls'[i].pc = "release"

\* Call i runs its critical section in this step and goes on to persist.
Commits(i) ==
    /\ calls[i].pc = "cs"
    /\ Len(calls') = Len(calls)
    /\ calls'[i].pc = "write"

\* C1: on a collection with a unique index on f, after any sequence of
\* create, update, upsert and remove calls (failing ones included), no two
\* records of _data have the same defined value of f.
C1_UniqueValues ==
    \A k \in DOMAIN indexDefs : indexDefs[k].unique =>
        \A i, j \in DOMAIN data :
            (i # j /\ getByPath(data[i], indexDefs[k].field) # Undef)
                => getByPath(data[i], indexDefs[k].field)
                       # getByPath(data[j], indexDefs[k].field)

\* C2: after any sequence of create, update, upsert, remove and replaceAll
\* calls, no two records of _data have the same primary key.
C2_PrimaryKeysUnique ==
    \A i, j \in DOMAIN data : i # j => data[i].id # data[j].id

\* C3: after any sequence of create, update, remove, upsert and replaceAll
\* calls (failing ones included), for every index on f and every value v
\* the key-set of v holds exactly the keys of the records whose f is v.
C3_IndexesMatchRecords == IndexConsistent

\* C4: create calls in flight together, with distinct keys and no two sharing
\* a defined b, on a collection loaded or not: once none is in flight, _data
\* holds exactly the records committed so far and the indexes match them.
C4_ConcurrentCreates ==
    (/\ calls = <<>>
     /\ \A r1, r2 \in hist.created :
            r1 # r2 => r1.id # r2.id /\ (r1.b = Undef \/ r1.b # r2.b))
        => /\ {Plain(data[k]) : k \in DOMAIN data} = hist.created
           /\ IndexConsistent

\* C5: at most one of create, update, remove and replaceAll is in its
\* critical section (body, write, rename, up to unlock) at a time.
C5_MutualExclusion ==
    Cardinality({i \in DOMAIN calls : InCritical(calls[i])}) <= 1

\* C5, its case: one call persists while another waits in the mutex's queue.
C5_Witness ==
    \E i, j \in DOMAIN calls : calls[i].pc = "write" /\ calls[j].pc = "queued"

\* C6: while a persist is in progress, and after the process dies at any
\* point of it, the target file is the complete old content or the complete
\* new content, and only the rename changes the target file.
C6_AtomicPersist ==
    [][/\ file'.st # "partial"
       /\ pst'.active => file' \in {pst'.old, FullFile(pst'.new)}
       /\ (pst.active /\ calls' = <<>>) => file' \in {pst.old, FullFile(pst.new)}
       /\ file' # file =>
             /\ \E i \in DOMAIN calls : calls[i].pc = "rename"
             /\ pst.active /\ file = pst.old /\ file' = FullFile(pst.new)]_vars

\* C6, its case: the process died in the middle of the write of a persist
\* that had new content, leaving a truncated temporary file.
C6_Witness ==
    /\ calls = <<>>
    /\ tmp.st = "partial"
    /\ file.st = "full"
    /\ file.recs # tmp.recs

\* C7: several calls touching a collection that is not loaded load it once:
\* no call installs what it read from the file into a collection that is
\* already loaded.
C7_LoadedOnce ==
    [][\A i \in DOMAIN calls :
          (calls[i].pc = "install" /\ Len(calls') = Len(calls)
           /\ calls'[i].pc # "install") => ~loaded]_vars

\* C8: mutating calls enter their critical sections in the order they were
\* issued: no call is in its critical section while a mutating call issued
\* before it has not entered its own.
C8_IssueOrder ==
    \A i, j \in DOMAIN calls :
        (i < j /\ InCritical(calls[j]))
            => ~(/\ calls[i].kind \in {"create", "update", "remove", "replaceAll"}
                 /\ calls[i].pc \in {"readFile", "install", "lock", "queued"})

\* C9: an update that throws EINDEX_UNIQUE commits nothing: _data, _byId,
\* every key-set of every index and the file are as before the call.
C9_FailedUpdateCommitsNothing ==
    [][\A i \in DOMAIN calls :
          (/\ calls[i].kind \in {"update", "upsertUpdate"}
           /\ Throws(i)
           /\ calls'[i].res = "EINDEX_UNIQUE")
              => /\ data' = data
                 /\ byId' = byId
                 /\ indexes' = indexes
                 /\ file' = file]_vars

\* C10: a create that throws, throws EVALIDATION, EPRIMARY_DUP or
\* EINDEX_UNIQUE and leaves _data, _byId and the file as they were; and right
\* after a create committed a record with b = v (unique index on b), a create
\* with b = v does not commit, and throws EINDEX_UNIQUE when its record is
\* valid and its key is new.
C10_RejectedCreate ==
    [][\A i \in DOMAIN calls :
          calls[i].kind \in {"create", "upsertCreate"} =>
              /\ Throws(i) =>
                    /\ calls'[i].res \in {"EVALIDATION", "EPRIMARY_DUP", "EINDEX_UNIQUE"}
                    /\ data' = data
                    /\ byId' = byId
                    /\ file' = file
                    /\ (/\ hist.lastB # Undef
                        /\ calls'[i].arg.b = hist.lastB
                        /\ ~MapHas(byId, calls'[i].arg.id))
                           => calls'[i].res = "EINDEX_UNIQUE"
              /\ (Commits(i) /\ hist.lastB # Undef) => hist'.lastB # hist.lastB]_vars

\* C10, its case: a create committed a record with b = v, the next create
\* with b = v threw EINDEX_UNIQUE, and _data holds that one record.
C10_Witness ==
    \E i \in DOMAIN calls :
        /\ calls[i].kind = "create"
        /\ calls[i].pc = "release"
        /\ calls[i].res = "EINDEX_UNIQUE"
        /\ hist.lastB # Undef
        /\ calls[i].arg.b = hist.lastB
        /\ Len(data) = 1
        /\ data[1].b = hist.lastB

\* ------------------------------------------------------------- two indexes
\* One call at a time of create, remove and all, on a collection with an
\* index on a and a unique index on b, configured in either order.
NextIdx ==
    \/ \E kind \in {"create", "remove", "all"} : Invoke(kind)
    \/ \E i \in DOMAIN calls : ReadFile(i, TRUE)
    \/ \E i \in DOMAIN calls : Install(i)
    \/ \E i \in DOMAIN calls : ReturnAll(i)
    \/ \E i \in DOMAIN calls : Lock(i)
    \/ \E i \in DOMAIN calls,
          record \in (RecsOver(Ids \cup {Undef}, (1 .. MaxA2) \cup {Undef}, BVals \cup {Undef})) :
          CreateCS(i, record)
    \/ \E i \in DOMAIN calls, id \in Ids \cup Uuids : RemoveCS(i, id)
    \/ \E i \in DOMAIN calls : Write(i, TRUE)
    \/ \E i \in DOMAIN calls : Rename(i, TRUE)
    \/ \E i \in DOMAIN calls : Release(i)

SpecIdx ==
    /\ InitWith({<<Def("a", FALSE), Def("b", TRUE)>>, <<Def("b", TRUE), Def("a", FALSE)>>,
                <<Def("a", TRUE), Def("b", TRUE)>>},
                {"none"}, MaxSeqCalls, FALSE)
    /\ [][NextIdx]_vars

\* addIndex(field, {unique}): nothing for a field that has a definition;
\* else the definition and an empty Map are set, and every record of _data
\* goes through _indexInsert (all definitions), up to the first that throws.
addIndex(field, unique) ==
    IF field \in DefFields(indexDefs)
    THEN UNCHANGED vars
    ELSE LET defs == Append(indexDefs, Def(field, unique))
             idx  == [f \in DefFields(defs) |-> IF f = field THEN EmptyMap ELSE indexes[f]]
         IN  /\ indexDefs' = defs
             /\ indexes' = RebuildFrom(defs, 1, idx, data).idx
             /\ UNCHANGED <<schema, limit, track, collections, instances, got, loaded,
                            data, byId, locked, queue, calls, file, tmp, pst, hist>>

\* Creates, one at a time, on a collection constructed with no index or
\* with one on b, and addIndex for a or b, unique or not, between their steps.
SpecAddIndex ==
    /\ InitWith({<<>>, <<Def("b", FALSE)>>}, {"none"}, MaxSeqCalls, FALSE)
    /\ [][\/ Invoke("create")
          \/ \E i \in DOMAIN calls : ReadFile(i, TRUE)
          \/ \E i \in DOMAIN calls : Install(i)
          \/ \E i \in DOMAIN calls : Lock(i)
          \/ \E i \in DOMAIN calls,
                record \in (RecsOver(Ids, (1 .. MaxA2) \cup {Undef}, BVals \cup {Undef})) :
                CreateCS(i, record)
          \/ \E i \in DOMAIN calls : Write(i, TRUE)
          \/ \E i \in DOMAIN calls : Rename(i, TRUE)
          \/ \E i \in DOMAIN calls : Release(i)
          \/ \E field \in {"a", "b"}, unique \in BOOLEAN : addIndex(field, unique)]_vars

\* ------------------------------------------- serialization of nested values
\* A JavaScript value with its identity: a number (t "num", v), a string
\* (t "str": the one string written here, "[Circular]"), or an object or
\* array (t "obj", "arr") with its identity oid and its properties ps, a
\* sequence of <<key, value>> in insertion order.  A text is a sequence of
\* tokens.
\*
\* JSON.stringify(value, replacer) of stableStringify over the members ps
\* of one holder, from the k-th on: replacer writes "[Circular]" for an
\* object it has seen, whether it is an ancestor or not, and else adds it to
\* seen and writes it, an object with its keys sorted.
RECURSIVE StringifyFrom(_, _, _, _)
StringifyFrom(ps, k, seen, keyed) ==
    IF k > Len(ps) THEN [out |-> <<>>, seen |-> seen]
    ELSE LET v == ps[k][2]
             keys == {v.ps[j][1] : j \in DOMAIN v.ps}
             sorted == SelectSeq(SortedKeys, LAMBDA key : key \in keys)
             members == IF v.t = "arr" THEN v.ps
                        ELSE [j \in DOMAIN sorted |->
                                v.ps[CHOOSE n \in DOMAIN v.ps : v.ps[n][1] = sorted[j]]]
             this == IF v.t = "num" THEN [out |-> <<ToString(v.v)>>, seen |-> seen]
                     ELSE IF v.t = "str" \/ v.oid \in seen
                          THEN [out |-> <<"\"[Circular]\"">>, seen |-> seen]
                          ELSE LET in == StringifyFrom(members, 1, seen \cup {v.oid},
                                                       v.t = "obj")
                               IN  [out |-> <<IF v.t = "arr" THEN "[" ELSE "{">> \o in.out
                                            \o <<IF v.t = "arr" THEN "]" ELSE "}">>,
                                    seen |-> in.seen]
             rest == StringifyFrom(ps, k + 1, this.seen, keyed)
         IN  [out |-> (IF keyed THEN <<ps[k][1]>> ELSE <<>>) \o this.out \o rest.out,
              seen |-> rest.seen]

\* JSON.parse over the members of one holder, up to its closing token:
\* every object and array parsed is a new one (oid 0).
RECURSIVE ParseFrom(_, _, _)
ParseFrom(toks, keyed, close) ==
    IF toks[1] = close THEN [ps |-> <<>>, rest |-> Tail(toks)]
    ELSE LET t == IF keyed THEN Tail(toks) ELSE toks
             inner == ParseFrom(Tail(t), t[1] = "{", IF t[1] = "{" THEN "}" ELSE "]")
             this == IF t[1] \in {"{", "["}
                     THEN [val |-> [t |-> IF t[1] = "{" THEN "obj" ELSE "arr", v |-> 0,
                                    oid |-> 0, ps |-> inner.ps],
                           rest |-> inner.rest]
                     ELSE IF t[1] = "\"[Circular]\""
                          THEN [val |-> [t |-> "str", v |-> 0, oid |-> 0, ps |-> <<>>],
                                rest |-> Tail(t)]
                          ELSE [val |-> [t |-> "num",
                                         v |-> CHOOSE n \in 0 .. 9 : ToString(n) = t[1],
                                         oid |-> 0, ps |-> <<>>],
                                rest |-> Tail(t)]
             more == ParseFrom(this.rest, keyed, close)
         IN  [ps |-> << <<IF keyed THEN toks[1] ELSE "", this.val>> >> \o more.ps,
              rest |-> more.rest]

\* The record sequences persisted: up to MaxRecs records {id, a}, the
\* properties set in either order, a an object {a, b} the caller built in
\* either order, or {a}; two records may hold the same object (create and
\* update copy the caller's record one level deep, db.js 321 and 455).
PersistInputs ==
    LET Num(n) == [t |-> "num", v |-> n, oid |-> 0, ps |-> <<>>]
        Obj(o, ps) == [t |-> "obj", v |-> 0, oid |-> o, ps |-> ps]
        Inner == {Obj(o, ps) : o \in {MaxRecs + 1, MaxRecs + 2},
                               ps \in {<< <<"a", Num(1)>>, <<"b", Num(MaxB)>> >>,
                                       << <<"b", Num(MaxB)>>, <<"a", Num(1)>> >>,
                                       << <<"a", Num(1)>> >>}}
        RecsAt(k) == UNION {{Obj(k, << <<"id", Num(k - 1)>>, <<"a", m>> >>),
                             Obj(k, << <<"a", m>>, <<"id", Num(k - 1)>> >>)} : m \in Inner}
        Shared(s) == \A i, j \in DOMAIN s :
                        \A p \in DOMAIN s[i].ps, q \in DOMAIN s[j].ps :
                            (s[i].ps[p][1] = "a" /\ s[j].ps[q][1] = "a"
                               /\ s[i].ps[p][2].oid = s[j].ps[q][2].oid)
                                => s[i].ps[p][2] = s[j].ps[q][2]
    IN  {s \in UNION {[1 .. n -> UNION {RecsAt(k) : k \in 1 .. MaxRecs}] : n \in 0 .. MaxRecs} :
            /\ \A k \in DOMAIN s : s[k].oid = k
            /\ Shared(s)}

\* _persist() when this._data is records: atomicWriteJSON writes
\* stableStringify(this._data) to the temp file and renames it.
_persist(records) ==
    /\ data' = records
    /\ file' = FullFile(StringifyFrom(<< <<"", [t |-> "arr", v |-> 0, oid |-> 0,
                                                ps |-> [k \in DOMAIN records |->
                                                          <<"", records[k]>>]]>> >>,
                                      1, {}, FALSE).out)
    /\ UNCHANGED <<conf, loaded, byId, indexes, locked, queue, calls, tmp, pst, hist>>

\* _ensureLoaded() of a reload: this._data is what JSON.parse makes of the
\* file (the collection has no index here, and _byId is left out).
_ensureLoaded ==
    /\ file.st = "full"
    /\ data' = LET arr == ParseFrom(file.recs \o <<"$">>, FALSE, "$").ps[1][2]
               IN  [k \in DOMAIN arr.ps |-> arr.ps[k][2]]
    /\ loaded' = TRUE
    /\ UNCHANGED <<conf, byId, indexes, locked, queue, calls, file, tmp, pst, hist>>

SpecPersist ==
    /\ InitWith({<<>>}, {"none"}, MaxSeqCalls, FALSE)
    /\ [][(\E records \in PersistInputs : _persist(records)) \/ _ensureLoaded]_vars

\* C11: after a failed create, whatever the indexes configured and their
\* order, no key-set of any index holds the key of the rejected record: every
\* key an index holds is the key of a record of _data.
C11_IndexesReferRecords ==
    \A f \in DOMAIN indexes : \A v \in DOMAIN indexes[f] :
        KeySet(f, v) \subseteq {data[k].id : k \in DOMAIN data}

\* The step leaves _data, _byId, the indexes and the file as they were.
NothingCommitted ==
    /\ data' = data
    /\ byId' = byId
    /\ indexes' = indexes
    /\ file' = file

\* C12: an update of a stored record whose patch has the primary-key field
\* with a value other than id throws EPRIMARY_IMMUTABLE and changes nothing,
\* whatever that value is; so every record of _byId has the key it is filed
\* under.
C12_KeyImmutable ==
    [][/\ \A i \in DOMAIN calls : \A id \in Ids \cup Uuids : \A patch \in SeqPatches :
             (/\ UpdateCS(i, id, patch)
              /\ MapHas(byId, id)
              /\ patch.id # Absent
              /\ patch.id # id)
                 => /\ calls'[i].pc = "release"
                    /\ calls'[i].res = "EPRIMARY_IMMUTABLE"
                    /\ NothingCommitted
       /\ \A k \in DOMAIN byId' : byId'[k].id = k]_vars

\* One call at a time of create, remove, replaceAll and all, with or without
\* a validator.
ReplaceRecs == RecsOver(Ids \cup {Undef}, {Undef}, {Undef, 1})

NextReplace ==
    \/ \E kind \in {"create", "remove", "all"} : Invoke(kind)
    \/ InvokeReplaceAll
    \/ \E i \in DOMAIN calls : ReadFile(i, TRUE)
    \/ \E i \in DOMAIN calls : Install(i)
    \/ \E i \in DOMAIN calls : ReturnAll(i)
    \/ \E i \in DOMAIN calls : Lock(i)
    \/ \E i \in DOMAIN calls, record \in ReplaceRecs : CreateCS(i, record)
    \/ \E i \in DOMAIN calls, id \in Ids \cup Uuids : RemoveCS(i, id)
    \/ \E i \in DOMAIN calls, records \in SeqsUpTo(ReplaceRecs, MaxRecs) :
          ReplaceAllCS(i, records)
    \/ \E i \in DOMAIN calls : Write(i, TRUE)
    \/ \E i \in DOMAIN calls : Rename(i, TRUE)
    \/ \E i \in DOMAIN calls : Release(i)

SpecReplace ==
    /\ InitWith({<<Def("b", TRUE)>>}, {"none", "needB"}, MaxSeqCalls, FALSE)
    /\ [][NextReplace]_vars

\* Two records of the input of replaceAll have the same primary key.
DupKeys(records) ==
    \E j, k \in DOMAIN records :
        j < k /\ records[j].id # Undef /\ records[j].id = records[k].id

\* Every record of the input of replaceAll passes the validator once normalized.
AllValid(records) ==
    LET normalized == Normalize(records, FirstFresh(FreshUuids, Len(records)))
    IN  \A k \in DOMAIN normalized : Validate(schema, normalized[k])

\* C13, as stated: a replaceAll whose input has two records with the same
\* primary key throws EPRIMARY_DUP and changes nothing in _data, _byId, the
\* indexes and the file.
C13_DuplicateKeysAlways ==
    [][\A i \in DOMAIN calls : (calls[i].kind = "replaceAll" /\ calls[i].pc = "cs") =>
          \A records \in SeqsUpTo(ReplaceRecs, MaxRecs) :
          (DupKeys(records) /\ ReplaceAllCS(i, records))
              => /\ calls'[i].pc = "release"
                 /\ calls'[i].res = "EPRIMARY_DUP"
                 /\ NothingCommitted]_vars

\* C13, amended: a replaceAll whose input has two records with the same
\* primary key throws and changes nothing in _data, _byId, the indexes and
\* the file; it throws EPRIMARY_DUP when every record of the input passes the
\* validator, and EVALIDATION otherwise.
C13_DuplicateKeysRejected ==
    [][\A i \in DOMAIN calls : (calls[i].kind = "replaceAll" /\ calls[i].pc = "cs") =>
          \A records \in SeqsUpTo(ReplaceRecs, MaxRecs) :
          (DupKeys(records) /\ ReplaceAllCS(i, records))
              => /\ calls'[i].pc = "release"
                 /\ calls'[i].res = IF AllValid(records) THEN "EPRIMARY_DUP"
                                    ELSE "EVALIDATION"
                 /\ NothingCommitted]_vars

\* C13, its case: a replaceAll on a collection that holds a persisted record
\* threw EPRIMARY_DUP.
C13_Witness ==
    \E i \in DOMAIN calls :
        /\ calls[i].kind = "replaceAll"
        /\ calls[i].pc = "release"
        /\ calls[i].res = "EPRIMARY_DUP"
        /\ Len(data) > 0
        /\ file = FullFile(stableStringify(data))

\* C14: a replaceAll that throws EINDEX_UNIQUE has committed nothing: _data,
\* _byId, the indexes and the file are as before the call.
C14_FailedReplaceAllCommitsNothing ==
    [][\A i \in DOMAIN calls :
          (/\ calls[i].kind = "replaceAll"
           /\ Throws(i)
           /\ calls'[i].res = "EINDEX_UNIQUE")
              => NothingCommitted]_vars

\* C17: an update of an id that _byId does not have throws ENOTFOUND without
\* persisting (no file is written) and leaves _data, _byId and the indexes
\* as they were; a read of such an id returns null.
C17_UpdateOfMissing ==
    [][\A i \in DOMAIN calls : \A id \in Ids \cup Uuids :
          /\ \A patch \in CrudPatches :
                (UpdateCS(i, id, patch) /\ ~MapHas(byId, id))
                    => /\ calls'[i].pc = "release"
                       /\ calls'[i].res = "ENOTFOUND"
                       /\ NothingCommitted
                       /\ tmp' = tmp
                       /\ pst' = pst
          /\ (ReadReturn(i, id) /\ ~MapHas(byId, id))
                => /\ calls'[i].pc = "done"
                   /\ ~calls'[i].hit
                   /\ calls'[i].arg = NoArg]_vars

\* C17, its case: an update of an id the collection does not have threw
\* ENOTFOUND on a collection that holds a persisted record.
C17_Witness ==
    \E i \in DOMAIN calls :
        /\ calls[i].kind = "update"
        /\ calls[i].pc = "release"
        /\ calls[i].res = "ENOTFOUND"
        /\ Len(data) > 0
        /\ file = FullFile(stableStringify(data))

\* ------------------------------------------------------------- round trip
\* One call at a time of create, read, reload and all; the records that
\* create commits are recorded.
RoundRecs == RecsOver(Ids \cup {Undef}, {Undef}, BVals \cup {Undef})

NextRound ==
    \/ \E kind \in {"create", "read", "all"} : Invoke(kind)
    \/ InvokeReload
    \/ \E i \in DOMAIN calls : ReadFile(i, TRUE)
    \/ \E i \in DOMAIN calls : Install(i)
    \/ \E i \in DOMAIN calls : ReturnAll(i)
    \/ \E i \in DOMAIN calls, id \in Ids \cup Uuids : ReadReturn(i, id)
    \/ \E i \in DOMAIN calls : Resolve(i)
    \/ \E i \in DOMAIN calls : Lock(i)
    \/ \E i \in DOMAIN calls, record \in RoundRecs : CreateCS(i, record)
    \/ \E i \in DOMAIN calls : Write(i, TRUE)
    \/ \E i \in DOMAIN calls : Rename(i, TRUE)
    \/ \E i \in DOMAIN calls : Release(i)

SpecRound ==
    /\ InitWith({<<Def("b", TRUE)>>}, {"none", "needB"}, MaxSeqCalls, TRUE)
    /\ [][NextRound]_vars

\* create, read and reload with up to MaxCalls of them in flight at a time.
NextRoundOverlap ==
    \/ \E kind \in {"create", "read"} : Invoke(kind)
    \/ InvokeReload
    \/ \E i \in DOMAIN calls : ReadFile(i, TRUE)
    \/ \E i \in DOMAIN calls : Install(i)
    \/ \E i \in DOMAIN calls, id \in Ids \cup Uuids : ReadReturn(i, id)
    \/ \E i \in DOMAIN calls : Resolve(i)
    \/ \E i \in DOMAIN calls : Lock(i)
    \/ \E i \in DOMAIN calls,
          record \in RecsOver({0, Undef}, {Undef}, {Undef}) : CreateCS(i, record)
    \/ \E i \in DOMAIN calls : Write(i, TRUE)
    \/ \E i \in DOMAIN calls : Rename(i, TRUE)
    \/ \E i \in DOMAIN calls : Release(i)

SpecRoundOverlap == InitCreates /\ [][NextRoundOverlap]_vars

\* C15: the record a successful create(r) commits is r with the key
\* (generated when r has none) and the timestamps, and once every create
\* has returned, read of its key returns it, at once and after any reload()
\* of the file.
C15_RoundTrip ==
    [][\A i \in DOMAIN calls :
          /\ (calls[i].kind = "create" /\ calls[i].pc = "cs") =>
                \A record \in RoundRecs :
                    (CreateCS(i, record) /\ Commits(i)) =>
                        LET c == Plain(data'[Len(data')])
                        IN  /\ c.a = record.a
                            /\ c.b = record.b
                            /\ IF record.id = Undef THEN c.id \in Uuids
                               ELSE c.id = record.id
                            /\ c.createdAt = NowIso
                            /\ c.updatedAt = NowIso
                            /\ MapHas(byId', c.id)
                            /\ clone(byId'[c.id]) = c
          /\ \A id \in Ids \cup Uuids :
                (ReadReturn(i, id) /\ \A j \in DOMAIN calls : calls[j].kind # "create") =>
                    \A c \in hist.created :
                        c.id = id => (calls'[i].hit /\ calls'[i].arg = c)]_vars

\* C15, its case: read returned a record that create committed before the
\* latest reload().
C15_Witness ==
    \E i \in DOMAIN calls :
        /\ calls[i].kind = "read"
        /\ calls[i].pc = "done"
        /\ calls[i].hit
        /\ calls[i].arg \in hist.atReload
        /\ calls[i].arg.id = calls[i].found

\* C16: remove(id) of an id that _byId has goes on to persist and return
\* true, and then the record is gone: the key is not in _byId (read returns
\* null, a second remove returns false), _data has one record less and none
\* with that key (so have findMany and the file being written), no key-set of
\* any index holds the key and no key-set is empty; remove(id) of an id that
\* _byId does not have returns false and changes nothing.
C16_IdempotentRemove ==
    [][\A i \in DOMAIN calls : (calls[i].kind = "remove" /\ calls[i].pc = "cs") =>
          \A id \in Ids \cup Uuids :
              RemoveCS(i, id) =>
                  IF MapHas(byId, id)
                  THEN /\ Commits(i)
                       /\ ~MapHas(byId', id)
                       /\ Len(data') = Len(data) - 1
                       /\ \A k \in DOMAIN data' : data'[k].id # id
                       /\ pst'.new = stableStringify(data')
                       /\ \A f \in DOMAIN indexes' : \A v \in DOMAIN indexes'[f] :
                             /\ Len(indexes'[f][v]) > 0
                             /\ ~SetHas(indexes'[f][v], id)
                  ELSE /\ calls'[i].pc = "release"
                       /\ calls'[i].res = "false"
                       /\ NothingCommitted]_vars

\* A timestamp a caller puts in a record or a patch: not what the clock of
\* the store reads.
CallerIso == NowIso + 1

\* Records and patches whose timestamps the caller may have filled in.
StampRecs ==
    {Rec(id, Undef, b, c, u) : id \in {0, Undef}, b \in {Undef, 1},
                              c \in {Undef, CallerIso}, u \in {Undef, CallerIso}}

\* One call at a time of create, update, replaceAll and all, with each of the
\* validators or none.
NextStamps ==
    \/ \E kind \in {"create", "update", "all"} : Invoke(kind)
    \/ InvokeReplaceAll
    \/ \E i \in DOMAIN calls : ReadFile(i, TRUE)
    \/ \E i \in DOMAIN calls : Install(i)
    \/ \E i \in DOMAIN calls : ReturnAll(i)
    \/ \E i \in DOMAIN calls : Lock(i)
    \/ \E i \in DOMAIN calls, record \in StampRecs : CreateCS(i, record)
    \/ \E i \in DOMAIN calls, id \in Ids \cup Uuids,
          patch \in {Rec(Absent, Absent, b, c, u) : b \in {Absent, 2},
                         c \in {Absent, CallerIso}, u \in {Absent, CallerIso}} :
          UpdateCS(i, id, patch)
    \/ \E i \in DOMAIN calls, records \in SeqsUpTo(StampRecs, MaxRecs) :
          ReplaceAllCS(i, records)
    \/ \E i \in DOMAIN calls : Write(i, TRUE)
    \/ \E i \in DOMAIN calls : Rename(i, TRUE)
    \/ \E i \in DOMAIN calls : Release(i)

SpecStamps ==
    /\ InitWith({<<Def("b", TRUE)>>}, {"none", "needB", "strict"}, MaxSeqCalls, FALSE)
    /\ [][NextStamps]_vars

\* C18: on a collection with a validator, when create, update or replaceAll
\* goes on to persist, every record of _data and of the serialization to be
\* written passes the validator as it stands there, key and timestamps
\* included; and a call that throws EVALIDATION has changed nothing.
C18_CommittedRecordsValid ==
    [][\A i \in DOMAIN calls :
          (calls[i].pc = "cs" /\ calls[i].kind \in {"create", "update", "replaceAll"}) =>
              /\ Commits(i) =>
                    /\ \A k \in DOMAIN data' : Validate(schema, Plain(data'[k]))
                    /\ \A k \in DOMAIN pst'.new : Validate(schema, ParseRec(pst'.new[k]))
              /\ (Throws(i) /\ calls'[i].res = "EVALIDATION") => NothingCommitted]_vars

\* C19: when create, update or replaceAll goes on to persist, createdAt and
\* updatedAt of every record of _data are what the clock of the store read,
\* whatever timestamps the caller put in the record or the patch; an update
\* leaves createdAt of every record as it was.
C19_StoreAssignedTimestamps ==
    [][\A i \in DOMAIN calls :
          (calls[i].pc = "cs" /\ calls[i].kind \in {"create", "update", "replaceAll"}
              /\ Commits(i)) =>
              /\ \A k \in DOMAIN data' :
                    data'[k].createdAt = NowIso /\ data'[k].updatedAt = NowIso
              /\ calls[i].kind = "update" =>
                    \A k \in DOMAIN data : data'[k].createdAt = data[k].createdAt]_vars

\* The queries given to findMany: no field, one field, or both in either
\* order, each with a value.
FindQueriesOver(A, B) ==
    {<<>>} \cup {<< <<"a", v>> >> : v \in A} \cup {<< <<"b", w>> >> : w \in B}
        \cup {<< <<"a", v>>, <<"b", w>> >> : v \in A, w \in B}
        \cup {<< <<"b", w>>, <<"a", v>> >> : v \in A, w \in B}

\* One call at a time of create, remove, findMany and all.
InitFind == InitWith({<<Def("b", TRUE)>>}, {"none"}, MaxSeqCalls, FALSE)

NextFind ==
    \/ \E kind \in {"create", "remove", "findMany", "all"} : Invoke(kind)
    \/ \E i \in DOMAIN calls : ReadFile(i, TRUE)
    \/ \E i \in DOMAIN calls : Install(i)
    \/ \E i \in DOMAIN calls : ReturnAll(i)
    \/ \E i \in DOMAIN calls, query \in FindQueriesOver({1}, BVals), sortBy \in {"", "a", "b"},
          sortDir \in {"asc", "desc"}, offset \in (0 .. MaxRecs),
          lim \in ({Undef} \cup (0 .. MaxRecs)) :
          FindManyReturn(i, query, sortBy, sortDir, offset, lim)
    \/ \E i \in DOMAIN calls : Resolve(i)
    \/ \E i \in DOMAIN calls : Lock(i)
    \/ \E i \in DOMAIN calls,
          record \in RecsOver(Ids \cup {Undef}, {Undef, 1}, BVals \cup {Undef}) :
          CreateCS(i, record)
    \/ \E i \in DOMAIN calls, id \in Ids \cup Uuids : RemoveCS(i, id)
    \/ \E i \in DOMAIN calls : Write(i, TRUE)
    \/ \E i \in DOMAIN calls : Rename(i, TRUE)
    \/ \E i \in DOMAIN calls : Release(i)

SpecFind == InitFind /\ [][NextFind]_vars

\* The same with update calls whose patch sets the indexed field.
NextFindUpdate ==
    \/ NextFind
    \/ Invoke("update")
    \/ \E i \in DOMAIN calls, id \in Ids \cup Uuids,
          patch \in PatchesOver({Absent}, {Absent}, BVals) :
          UpdateCS(i, id, patch)

SpecFindUpdate == InitFind /\ [][NextFindUpdate]_vars

\* The records of _data for which every queried field equals its value.
Matches(query) ==
    SelectSeq(data, LAMBDA r : \A k \in DOMAIN query : r[query[k][1]] = query[k][2])

\* The page of the matches: sorted when sortBy is given, then the slice
\* [offset, offset + lim), or the whole tail from offset when lim is not given.
PageOf(query, sortBy, sortDir, offset, lim) ==
    LET m == Matches(query)
        sorted == IF sortBy = "" THEN m
                  ELSE SortRecs(m, sortBy, IF sortDir = "desc" THEN 0 - 1 ELSE 1)
        last == IF lim = Undef THEN Len(sorted) ELSE Min({offset + lim, Len(sorted)})
    IN  [k \in 1 .. Max({last - offset, 0}) |-> Plain(sorted[offset + k])]

\* C20: findMany(query, {sortBy, sortDir, offset, limit}) returns as total
\* the number of records whose every queried field equals its value, and as
\* items the slice [offset, offset + limit) of those records after sorting
\* (the whole tail when limit is not given).
C20_FindManyPage ==
    [][\A i \in DOMAIN calls :
          (calls[i].kind = "findMany" /\ calls[i].pc = "ret"
              /\ Len(calls') = Len(calls) /\ calls'[i].pc = "done") =>
              LET c == calls'[i]
              IN  /\ c.total = Len(Matches(c.q))
                  /\ c.items = PageOf(c.q, c.opts.sortBy, c.opts.sortDir,
                                      c.opts.offset, c.opts.limit)]_vars

\* The scenario of two records sorted in descending order with limit 1: the
\* record with the greater value is returned, with total 2.
C20_Witness ==
    \E i \in DOMAIN calls :
        /\ calls[i].kind = "findMany" /\ calls[i].pc = "done"
        /\ calls[i].q = <<>>
        /\ calls[i].opts = Options("b", "desc", 0, 1)
        /\ calls[i].total = 2
        /\ Len(calls[i].items) = 1
        /\ calls[i].items[1].b = 2
        /\ \E k \in DOMAIN data : data[k].b = 1

\* create, update and findMany with a sort, one call at a time, on a
\* collection with a non-unique index on a.
NextOrder ==
    \/ \E kind \in {"create", "update", "findMany"} : Invoke(kind)
    \/ \E i \in DOMAIN calls : ReadFile(i, TRUE)
    \/ \E i \in DOMAIN calls : Install(i)
    \/ \E i \in DOMAIN calls, query \in {<<>>, << <<"a", 1>> >>}, sortDir \in {"asc", "desc"} :
          FindManyReturn(i, query, "b", sortDir, 0, Undef)
    \/ \E i \in DOMAIN calls : Resolve(i)
    \/ \E i \in DOMAIN calls : Lock(i)
    \/ \E i \in DOMAIN calls,
          record \in RecsOver({0, Undef}, {Undef, 1}, {Undef, 1}) : CreateCS(i, record)
    \/ \E i \in DOMAIN calls, id \in Ids \cup Uuids,
          patch \in PatchesOver({Absent}, {Undef, 1}, {Absent, Undef, 1}) :
          UpdateCS(i, id, patch)
    \/ \E i \in DOMAIN calls : Write(i, TRUE)
    \/ \E i \in DOMAIN calls : Rename(i, TRUE)
    \/ \E i \in DOMAIN calls : Release(i)

SpecOrder == (InitWith({<<Def("a", FALSE)>>}, {"none"}, MaxSeqCalls, FALSE)) /\ [][NextOrder]_vars

\* The place in _data of the record with key id: the order of insertion.
PlaceOf(id) == CHOOSE k \in DOMAIN data : data[k].id = id

\* C21: in the items of a findMany with sortBy, a record without the sort
\* field comes before every record that has it when ascending and after
\* when descending, records that have it are in the order of their values,
\* and records with equal sort values are in the order of insertion,
\* whether or not the query is answered through an index.
C21_StableSort ==
    [][\A i \in DOMAIN calls :
          (calls[i].kind = "findMany" /\ calls[i].pc = "ret"
              /\ Len(calls') = Len(calls) /\ calls'[i].pc = "done"
              /\ calls'[i].opts.sortBy # "") =>
              LET c   == calls'[i]
                  f   == c.opts.sortBy
                  dir == IF c.opts.sortDir = "desc" THEN 0 - 1 ELSE 1
              IN  \A j, k \in DOMAIN c.items : j < k =>
                      LET x == c.items[j]
                          y == c.items[k]
                      IN  /\ Compare(x, y, f, 1) * dir <= 0
                          /\ x[f] = y[f] => PlaceOf(x.id) < PlaceOf(y.id)]_vars

\* The places in _data of the records that match query.
MatchPlaces(query) ==
    {k \in DOMAIN data : \A n \in DOMAIN query : data[k][query[n][1]] = query[n][2]}

\* C22: with no other call in flight, the update or create that upsert(query,
\* payload) runs is an update of the first record of _data matching query
\* when there is one, which on success leaves the number of records
\* unchanged and that record merged with payload, and otherwise a create,
\* which on success appends exactly one record with the fields of the merge
\* of query and payload; the record is in _byId under its key.
C22_UpsertUpdatesOrCreates ==
    [][\A i \in DOMAIN calls :
          (calls[i].pc = "cs" /\ calls[i].kind \in {"upsertUpdate", "upsertCreate"}
              /\ Len(calls) = 1) =>
              \A payload \in CrudPatches :
                  UpsertCS(i, payload) =>
                      LET m == MatchPlaces(calls[i].q)
                      IN  IF m # {}
                          THEN /\ calls[i].kind = "upsertUpdate"
                               /\ calls[i].found = data[Min(m)].id
                               /\ Commits(i) =>
                                     /\ Len(data') = Len(data)
                                     /\ Plain(data'[Min(m)]) = Merge(data[Min(m)], payload)
                                     /\ Plain(byId'[calls[i].found]) = Plain(data'[Min(m)])
                          ELSE /\ calls[i].kind = "upsertCreate"
                               /\ Commits(i) =>
                                     LET c == Plain(data'[Len(data')])
                                         w == QueryMerge(calls[i].q, payload)
                                     IN  /\ Len(data') = Len(data) + 1
                                         /\ c.a = w.a /\ c.b = w.b
                                         /\ w.id # Undef => c.id = w.id
                                         /\ MapHas(byId', c.id)
                                         /\ Plain(byId'[c.id]) = c]_vars

\* Overlapping upsert and remove calls on a collection with a non-unique
\* index on a; every upsert has the query {a: 1}.
UpsertPayloads == PatchesOver({Absent, 1}, {Absent}, {Absent, 1})

NextUpsert ==
    \/ \E kind \in {"upsert", "remove"} : Invoke(kind)
    \/ \E i \in DOMAIN calls : ReadFile(i, TRUE)
    \/ \E i \in DOMAIN calls : Install(i)
    \/ \E i \in DOMAIN calls, query \in {<< <<"a", 1>> >>} : Find(i, query)
    \/ \E i \in DOMAIN calls : Lock(i)
    \/ \E i \in DOMAIN calls, payload \in UpsertPayloads : UpsertCS(i, payload)
    \/ \E i \in DOMAIN calls, id \in Ids \cup Uuids : RemoveCS(i, id)
    \/ \E i \in DOMAIN calls : Write(i, TRUE)
    \/ \E i \in DOMAIN calls : Rename(i, TRUE)
    \/ \E i \in DOMAIN calls : Release(i)

SpecUpsert == (InitWith({<<Def("a", FALSE)>>}, {"none"}, MaxCalls, FALSE)) /\ [][NextUpsert]_vars

\* C23: the update or create of an upsert acts on what findOne returned
\* before the mutex was taken, not on the records as they are now: when the
\* record found has been removed since, it throws ENOTFOUND and changes
\* nothing; when findOne found nothing and a matching record has been
\* committed since, it still creates a record.
C23_UpsertNotOneSection ==
    [][\A i \in DOMAIN calls :
          (calls[i].pc = "cs" /\ calls[i].kind \in {"upsertUpdate", "upsertCreate"}) =>
              \A payload \in UpsertPayloads :
                  UpsertCS(i, payload) =>
                      /\ (calls[i].kind = "upsertUpdate" /\ ~MapHas(byId, calls[i].found)) =>
                            /\ Throws(i)
                            /\ calls'[i].res = "ENOTFOUND"
                            /\ NothingCommitted
                      /\ (calls[i].kind = "upsertCreate" /\ MatchPlaces(calls[i].q) # {}
                             /\ ~MapHas(byId, QueryMerge(calls[i].q, payload).id)) =>
                            /\ Commits(i)
                            /\ Len(data') = Len(data) + 1
                            /\ Cardinality({k \in DOMAIN data' :
                                   data'[k].a = QueryValue(calls[i].q, "a")}) >= 2]_vars

\* C23, its case: an upsert whose findOne found nothing has created a
\* second record matching its query; the first was created by another
\* upsert in between.
C23_Witness ==
    \E i \in DOMAIN calls :
        /\ calls[i].kind = "upsertCreate"
        /\ calls[i].res = "ok"
        /\ ~calls[i].hit
        /\ Cardinality(MatchPlaces(calls[i].q)) = 2

\* ------------------------------------------------------------- JSONDatabase
\* The names and the options objects given to JSONDatabase.collection:
\* options is <<schema, indexes>>.
Names == {"users", "lectures", "events"}

OptionSets == {<<s, d>> : s \in {"none", "needB"}, d \in {<<>>, <<Def("b", TRUE)>>}}

\* A collection() that constructs a JSONCollection on every call.
collectionNoCache(name, options) ==
    /\ instances' = Append(instances, [name |-> name, options |-> options])
    /\ collections' = MapSet(collections, name, Len(instances) + 1)
    /\ got' = [inst |-> Len(instances) + 1, name |-> name, options |-> options]
    /\ UNCHANGED <<indexDefs, schema, limit, track, mem, locked, queue, calls,
                   file, tmp, pst, hist>>

\* JSONDatabase.collection(name, options): the instance cached under name,
\* or a new JSONCollection, which it caches.
collection(name, options) ==
    /\ IF MapHas(collections, name)
       THEN /\ got' = [inst |-> collections[name], name |-> name, options |-> options]
            /\ UNCHANGED <<collections, instances>>
       ELSE /\ instances' = Append(instances, [name |-> name, options |-> options])
            /\ collections' = MapSet(collections, name, Len(instances) + 1)
            /\ got' = [inst |-> Len(instances) + 1, name |-> name, options |-> options]
    /\ UNCHANGED <<indexDefs, schema, limit, track, mem, locked, queue, calls,
                   file, tmp, pst, hist>>

\* Calls of collection() on one database handle.
NextDb == \E name \in Names, options \in OptionSets : collection(name, options)

SpecDb == Init /\ [][NextDb]_vars

\* C24: every call collection(name, options) returns the instance
\* constructed by the first call with that name, with the options of that
\* first call; a call with a name already seen constructs nothing; no two
\* instances constructed have the same name.
C24_OneInstancePerName ==
    [][\A name \in Names, options \in OptionSets :
          collection(name, options) =>
              /\ got'.inst \in DOMAIN instances'
              /\ instances'[got'.inst].name = name
              /\ MapHas(collections, name) =>
                    /\ got'.inst = collections[name]
                    /\ instances' = instances
                    /\ collections' = collections
              /\ ~MapHas(collections, name) => instances'[got'.inst].options = options
              /\ \A j, k \in DOMAIN instances' :
                    instances'[j].name = instances'[k].name => j = k]_vars

\* C24, its case: a later call with the same name and other options got
\* the instance of the first call.
C24_Witness ==
    /\ got.inst \in DOMAIN instances
    /\ instances[got.inst].name = got.name
    /\ instances[got.inst].options # got.options
    /\ Len(instances) > 1

\* Concurrent calls of every mutating operation, with file-system calls of
\* the persist step that can fail.
IoRecs == RecsOver({0}, {Undef}, {Undef, 1})

NextIo ==
    \/ \E kind \in {"create", "update", "remove"} : Invoke(kind)
    \/ InvokeReplaceAll
    \/ \E i \in DOMAIN calls : ReadFile(i, TRUE)
    \/ \E i \in DOMAIN calls : Install(i)
    \/ \E i \in DOMAIN calls : Lock(i)
    \/ \E i \in DOMAIN calls, record \in IoRecs : CreateCS(i, record)
    \/ \E i \in DOMAIN calls, id \in {0}, patch \in ConcPatches : UpdateCS(i, id, patch)
    \/ \E i \in DOMAIN calls, id \in {0} : RemoveCS(i, id)
    \/ \E i \in DOMAIN calls, records \in SeqsUpTo(IoRecs, MaxRecs) : ReplaceAllCS(i, records)
    \/ \E i \in DOMAIN calls, ok \in BOOLEAN : Write(i, ok)
    \/ \E i \in DOMAIN calls, ok \in BOOLEAN : Rename(i, ok)
    \/ \E i \in DOMAIN calls : Release(i)

SpecIo == Init /\ [][NextIo]_vars

\* C25: when fs.writeFile or fs.rename of a persist throws, the call ends
\* with that error as thrown, the target file is still the complete content
\* it had before the call, and when the call settles the mutex goes to the
\* first queued call, or is free when nobody waits.
C25_FailedPersist ==
    [][\A i \in DOMAIN calls :
          /\ (calls[i].pc \in {"write", "rename"} /\ Len(calls') = Len(calls)
                 /\ calls'[i].pc = "release" /\ calls'[i].res # "ok") =>
                /\ calls'[i].res = "EIO"
                /\ file' = file
                /\ file' = pst.old
                /\ file'.st # "partial"
          /\ (calls[i].pc = "release" /\ calls[i].res = "EIO" /\ Release(i)) =>
                IF Len(queue) = 0 THEN ~locked'
                ELSE LET j == queue[1]
                     IN  /\ calls[j].pc = "queued"
                         /\ calls'[IF j > i THEN j - 1 ELSE j].pc = "cs"
                         /\ locked']_vars

\* C25, its case: the persist of a call has failed, leaving the file as it
\* was before memory changed, while another mutating call waits for the mutex.
C25_Witness ==
    \E i, j \in DOMAIN calls :
        /\ calls[i].pc = "release" /\ calls[i].res = "EIO"
        /\ calls[j].pc = "queued"
        /\ pst.active /\ file = pst.old /\ FullFile(pst.new) # file

\* read, findMany and all in flight together with create and update.
ReadKinds == {"read", "findMany", "all"}

NextReads ==
    \/ \E kind \in {"create", "update"} \cup ReadKinds : Invoke(kind)
    \/ \E i \in DOMAIN calls : ReadFile(i, TRUE)
    \/ \E i \in DOMAIN calls : Install(i)
    \/ \E i \in DOMAIN calls : ReturnAll(i)
    \/ \E i \in DOMAIN calls, id \in Ids : ReadReturn(i, id)
    \/ \E i \in DOMAIN calls, query \in {<< <<"b", v>> >> : v \in BVals} :
          FindManyReturn(i, query, "", "asc", 0, Undef)
    \/ \E i \in DOMAIN calls : Resolve(i)
    \/ \E i \in DOMAIN calls : Lock(i)
    \/ \E i \in DOMAIN calls, record \in RecsOver(Ids, {Undef}, BVals) : CreateCS(i, record)
    \/ \E i \in DOMAIN calls, id \in Ids,
          patch \in PatchesOver({Absent}, {Absent}, BVals) : UpdateCS(i, id, patch)
    \/ \E i \in DOMAIN calls : Write(i, TRUE)
    \/ \E i \in DOMAIN calls : Rename(i, TRUE)
    \/ \E i \in DOMAIN calls : Release(i)

SpecReads == Init /\ [][NextReads]_vars

\* C26: read, findMany and all never take the mutex nor wait for it, and when
\* one of them returns, what it reads is not a half-applied mutation: _byId
\* holds exactly the records of _data under their keys and every index holds
\* exactly their values.
C26_ReadsSeeWholeStates ==
    [][\A i \in DOMAIN calls : calls[i].kind \in ReadKinds =>
          /\ calls[i].pc \in {"readFile", "install", "ret", "done"}
          /\ (calls[i].pc = "ret" /\ (Len(calls') < Len(calls) \/ calls'[i].pc = "done")) =>
                /\ Cardinality(DOMAIN byId) = Len(data)
                /\ \A k \in DOMAIN data :
                      MapHas(byId, data[k].id) /\ byId[data[k].id] = data[k]
                /\ IndexConsistent]_vars

\* C26, its case: a read has returned while a mutating call is suspended in
\* its persist.
C26_Witness ==
    \E i, j \in DOMAIN calls :
        /\ calls[i].kind \in ReadKinds /\ calls[i].pc = "done"
        /\ calls[j].pc \in {"write", "rename"}

\* ------------------------------------------------------------- corrupt file
\* Every operation of the collection, one call at a time, over a data
\* directory where the collection's file holds JSON that is not an array.
CorruptRecs == RecsOver({0}, {Undef}, {Undef, 1})

CorruptQueries == {<< <<"b", 1>> >>}

NextCorrupt ==
    \/ \E kind \in {"create", "read", "findMany", "update", "upsert", "remove", "all"} :
          Invoke(kind)
    \/ InvokeReload
    \/ InvokeReplaceAll
    \/ \E i \in DOMAIN calls : ReadFile(i, TRUE)
    \/ \E i \in DOMAIN calls : Install(i)
    \/ \E i \in DOMAIN calls : ReturnAll(i)
    \/ \E i \in DOMAIN calls, id \in {0} : ReadReturn(i, id)
    \/ \E i \in DOMAIN calls, query \in CorruptQueries :
          FindManyReturn(i, query, "", "asc", 0, Undef)
    \/ \E i \in DOMAIN calls : Resolve(i)
    \/ \E i \in DOMAIN calls, query \in CorruptQueries : Find(i, query)
    \/ \E i \in DOMAIN calls : Lock(i)
    \/ \E i \in DOMAIN calls, record \in CorruptRecs : CreateCS(i, record)
    \/ \E i \in DOMAIN calls, id \in {0}, patch \in ConcPatches : UpdateCS(i, id, patch)
    \/ \E i \in DOMAIN calls, payload \in ConcPatches : UpsertCS(i, payload)
    \/ \E i \in DOMAIN calls, id \in {0} : RemoveCS(i, id)
    \/ \E i \in DOMAIN calls, records \in SeqsUpTo(CorruptRecs, MaxRecs) :
          ReplaceAllCS(i, records)
    \/ \E i \in DOMAIN calls : Write(i, TRUE)
    \/ \E i \in DOMAIN calls : Rename(i, TRUE)
    \/ \E i \in DOMAIN calls : Release(i)

SpecCorrupt ==
    /\ InitFile({<<Def("b", TRUE)>>}, {"none"}, MaxSeqCalls, FALSE, NotArray)
    /\ [][NextCorrupt]_vars

\* C27: while the collection's file holds JSON that is not an array, a call
\* of any operation settles only by _ensureLoaded throwing, and no step
\* changes _data, _byId, the indexes or the file.
C27_CorruptStoreFails ==
    [][file = NotArray =>
          /\ Len(calls') < Len(calls) =>
                \E i \in DOMAIN calls : calls[i].pc = "readFile" /\ calls' = RemoveAt(calls, i)
          /\ <<data, byId, indexes>>' = <<data, byId, indexes>>
          /\ file' = file]_vars

\* A call of replaceAll is in its critical section over the corrupt file.
C27_Witness ==
    /\ file = NotArray
    /\ \E i \in DOMAIN calls : calls[i].kind = "replaceAll" /\ calls[i].pc = "rename"

\* C28: whatever calls came before, failed ones included, a create that
\* throws EINDEX_UNIQUE was given a record with a value of a unique field
\* that a record of _data holds, and an update that throws EINDEX_UNIQUE
\* was given a patch with a value of a unique field that a record of _data
\* other than the one updated holds.
C28_RejectsOnlyDuplicates ==
    [][\A i \in DOMAIN calls :
          (Throws(i) /\ calls'[i].res = "EINDEX_UNIQUE") =>
            LET HeldByAnother(f, v, id) ==
                    /\ v \notin {Undef, Absent}
                    /\ \E d \in DOMAIN indexDefs :
                          indexDefs[d].field = f /\ indexDefs[d].unique
                    /\ \E k \in DOMAIN data :
                          data[k].id # id /\ getByPath(data[k], f) = v
            IN
              /\ calls[i].kind = "create" =>
                    \E f \in DefFields(indexDefs) :
                        HeldByAnother(f, getByPath(calls'[i].arg, f), Undef)
              /\ calls[i].kind = "update" =>
                    \A id \in Ids \cup Uuids : \A patch \in SeqPatches :
                        UpdateCS(i, id, patch) =>
                            \E f \in DefFields(indexDefs) :
                                HeldByAnother(f, getByPath(patch, f), id)]_vars

\* A create is rejected with EINDEX_UNIQUE.
C28_Witness ==
    \E i \in DOMAIN calls :
        calls[i].kind = "create" /\ calls[i].pc = "release" /\ calls[i].res = "EINDEX_UNIQUE"

\* ------------------------------------------------------------- progress
\* The event loop runs every continuation that is ready: the call at each
\* place of the calls in flight takes the step its pending await leads to,
\* each fs call returning or throwing.
SpecIoFair ==
    /\ Init
    /\ [][NextIo]_vars
    /\ \A i \in 1 .. MaxCalls :
          WF_vars(/\ i \in DOMAIN calls
                  /\ \/ ReadFile(i, TRUE)
                     \/ Install(i)
                     \/ Lock(i)
                     \/ \E record \in IoRecs : CreateCS(i, record)
                     \/ \E patch \in ConcPatches : UpdateCS(i, 0, patch)
                     \/ RemoveCS(i, 0)
                     \/ \E records \in SeqsUpTo(IoRecs, MaxRecs) : ReplaceAllCS(i, records)
                     \/ \E ok \in BOOLEAN : Write(i, ok)
                     \/ \E ok \in BOOLEAN : Rename(i, ok)
                     \/ Release(i))

C30_UndefinedNeverIndexed ==
    LET Lookup(query) == findMany(query, "", "asc", 0, Undef).items
    IN
    /\ \A f \in DOMAIN indexes : \A v \in DOMAIN indexes[f] :
          \A k \in DOMAIN data :
              getByPath(data[k], f) = Undef => data[k].id \notin KeySet(f, v)
    /\ \A f \in DOMAIN indexes : \A v \in ValuesOf(f) \cup {Undef} :
          \A n \in DOMAIN Lookup(<< <<f, v>> >>) :
              getByPath(Lookup(<< <<f, v>> >>)[n], f) # Undef
    /\ \A k \in DOMAIN data :
          \E n \in DOMAIN Lookup(<<>>) : Lookup(<<>>)[n] = clone(data[k])

\* A stored record has no value of an indexed field that another stored
\* record has a value of.
C30_Witness ==
    \E f \in DOMAIN indexes :
        /\ \E k \in DOMAIN data : getByPath(data[k], f) = Undef
        /\ DOMAIN indexes[f] # {}

\* C31: in every state, for every query giving a defined value to the
\* indexed field and every sortBy, sortDir, offset and limit, findMany
\* (which goes through the index) returns the items, in the order, and the
\* total that the filter, sort and slice of the whole of _data give, and
\* findOne returns the first record of _data that matches.
C31_IndexIsAcceleration ==
    \A query \in FindQueriesOver({1}, {1}) :
        IndexedField(indexDefs, query) # "" =>
            /\ \A sortBy \in {"", "b"}, sortDir \in {"asc", "desc"},
                  offset \in 0 .. 1, lim \in {Undef, 1} :
                  LET r == findMany(query, sortBy, sortDir, offset, lim)
                  IN  /\ r.items = PageOf(query, sortBy, sortDir, offset, lim)
                      /\ r.total = Len(Matches(query))
            /\ findOne(query).hit = (Matches(query) # <<>>)
            /\ findOne(query).hit => findOne(query).id = Matches(query)[1].id

\* A key-set of an index holds the keys of two records.
C31_Witness ==
    \E f \in DOMAIN indexes : \E v \in DOMAIN indexes[f] : Len(indexes[f][v]) >= 2

\* C32: the offset a findMany returns is the offset it was given and the
\* limit it returns is the limit it was given when that is a number (0
\* included), null otherwise, also when the indexed lookup finds no key-set.
C32_EffectivePage ==
    [][\A i \in DOMAIN calls :
          (calls[i].kind = "findMany" /\ calls[i].pc = "ret"
              /\ Len(calls') = Len(calls) /\ calls'[i].pc = "done") =>
              LET c == calls'[i]
              IN  /\ c.page.offset = c.opts.offset
                  /\ c.page.limit = IF c.opts.limit = Undef THEN Null ELSE c.opts.limit]_vars

\* A findMany on the indexed field with limit 0 has found no key-set.
C32_Witness ==
    \E i \in DOMAIN calls :
        /\ calls[i].kind = "findMany" /\ calls[i].pc = "done"
        /\ calls[i].opts.limit = 0
        /\ IndexedField(indexDefs, calls[i].q) # ""
        /\ calls[i].total = 0

\* C33: in every state where the collection is loaded and no call is in
\* flight, what the file holds is the serialization of _data (an empty _data
\* when there is no file).
C33_MemoryIsFile ==
    (loaded /\ calls = <<>>) => file.recs = stableStringify(data)

\* The collection is loaded, holds a record, and no call is in flight.
C33_Witness ==
    loaded /\ calls = <<>> /\ Len(data) > 0 /\ file.st = "full"

\* C34: when fs.writeFile or fs.rename of the persist of a create, update,
\* remove or replaceAll throws, _data is afterwards what the file holds: the
\* records the call put in or took out of memory are not left there.
C34_FailedPersistRollsBack ==
    [][\A i \in DOMAIN calls :
          (calls[i].pc \in {"write", "rename"} /\ Len(calls') = Len(calls)
              /\ calls'[i].res = "EIO") =>
              /\ file' = pst.old
              /\ stableStringify(data') = file'.recs]_vars

\* A create has failed in its persist with the file not written.
C34_Witness ==
    \E i \in DOMAIN calls :
        /\ calls[i].kind = "create" /\ calls[i].pc = "release" /\ calls[i].res = "EIO"
        /\ file.st = "missing"

\* C35: in every state, every record of _data is the object _byId holds
\* under the record's primary key, and every entry of _byId holds an object
\* of _data whose primary key is the key of the entry.
C35_MapIsSequence ==
    /\ \A k \in DOMAIN data :
          MapHas(byId, data[k].id) /\ byId[data[k].id] = data[k]
    /\ \A key \in DOMAIN byId :
          /\ byId[key].id = key
          /\ \E k \in DOMAIN data : data[k] = byId[key]

\* Two records are stored and no call is in flight.
C35_Witness ==
    Cardinality(DOMAIN byId) = 2 /\ Len(data) = 2 /\ calls = <<>>

\* C36: a create that commits leaves every record of _data as and where it
\* was and puts its record after them; an update that commits changes no
\* record but the one _byId holds under id, which stays in its place; a
\* remove that commits takes the one record _byId holds under id out and
\* leaves the others as they were, in their order; and what the call then
\* writes to the file is the serialization of _data in that order.
C36_OnlyTheTarget ==
    [][\A i \in DOMAIN calls : Commits(i) =>
          LET P(d) == [k \in DOMAIN d |-> Plain(d[k])]
              place(id) == CHOOSE k \in DOMAIN data : data[k].oid = byId[id].oid
              without(s, n) == [k \in 1 .. (Len(s) - 1) |-> IF k < n THEN s[k] ELSE s[k + 1]]
          IN  /\ pst'.new = stableStringify(data')
              /\ calls[i].kind = "create" =>
                    /\ Len(data') = Len(data) + 1
                    /\ SubSeq(P(data'), 1, Len(data)) = P(data)
              /\ calls[i].kind = "update" =>
                    \A id \in Ids \cup Uuids : \A patch \in SeqPatches :
                        UpdateCS(i, id, patch) =>
                            /\ Len(data') = Len(data)
                            /\ \A k \in DOMAIN data :
                                  k # place(id) => Plain(data'[k]) = Plain(data[k])
              /\ calls[i].kind = "remove" =>
                    \A id \in Ids \cup Uuids :
                        RemoveCS(i, id) => P(data') = without(P(data), place(id))]_vars

\* An update has committed on a collection of two records.
C36_Witness ==
    \E i \in DOMAIN calls :
        calls[i].kind = "update" /\ calls[i].pc = "write" /\ Len(data) = 2

\* ------------------------------------------------------------- reload
\* create, update, remove and reload, one call at a time, over a data
\* directory where the collection's file is missing or empty; fs.writeFile
\* may throw, which leaves in memory what is not in the file.
SpecReload ==
    /\ \E f \in {Missing, EmptyFile} :
          InitFile({<<Def("b", TRUE)>>}, {"none"}, MaxSeqCalls, FALSE, f)
    /\ [][\/ \E kind \in {"create", "update", "remove"} : Invoke(kind)
          \/ InvokeReload
          \/ \E i \in DOMAIN calls : ReadFile(i, TRUE)
          \/ \E i \in DOMAIN calls : Install(i)
          \/ \E i \in DOMAIN calls : Resolve(i)
          \/ \E i \in DOMAIN calls : Lock(i)
          \/ \E i \in DOMAIN calls, record \in ConcRecs : CreateCS(i, record)
          \/ \E i \in DOMAIN calls, id \in Ids, patch \in ConcPatches : UpdateCS(i, id, patch)
          \/ \E i \in DOMAIN calls, id \in Ids : RemoveCS(i, id)
          \/ \E i \in DOMAIN calls, ok \in BOOLEAN : Write(i, ok)
          \/ \E i \in DOMAIN calls : Rename(i, TRUE)
          \/ \E i \in DOMAIN calls : Release(i)]_vars

\* C37: with no other call in flight, a reload reads a missing or empty file
\* as [] without failing, and when it completes (the file being what it
\* read) the collection is loaded, _data is the records the file holds, in
\* its order, _byId holds each of them under its key and nothing else, and
\* every key-set of every index holds exactly the keys of the records that
\* have its value, whatever _data, _byId and the indexes held before.
C37_ReloadIsFreshLoad ==
    [][\A i \in DOMAIN calls : (calls[i].kind = "reload" /\ Len(calls) = 1) =>
          /\ (calls[i].pc = "readFile" /\ file.st \in {"missing", "empty"}
                 /\ Len(calls') <= 1 /\ calls' # calls) =>
                Len(calls') = 1 /\ calls'[i].pc = "install" /\ calls'[i].arr = <<>>
          /\ (calls[i].pc = "install" /\ calls[i].arr = JSONparse(file.recs)
                 /\ Len(calls') = 1 /\ calls'[i].pc = "done") =>
                /\ loaded'
                /\ [k \in DOMAIN data' |-> Plain(data'[k])] = JSONparse(file.recs)
                /\ DOMAIN byId' = {data'[k].id : k \in DOMAIN data'}
                /\ \A k \in DOMAIN data' : byId'[data'[k].id] = data'[k]
                /\ IndexConsistent'
                /\ \A f \in DOMAIN indexes' : \A v \in DOMAIN indexes'[f] :
                      Len(indexes'[f][v]) > 0]_vars

\* A reload of an empty file has completed: the collection is loaded and
\* holds no record.
C37_Witness ==
    \E i \in DOMAIN calls :
        /\ calls[i].kind = "reload" /\ calls[i].pc = "done"
        /\ file.st = "empty" /\ loaded /\ data = <<>>

\* C38: addIndex on a loaded collection for a field that has no index
\* either leaves the definitions and the indexes as they were, or adds the
\* definition with an index whose key-sets hold, for every value, the keys
\* of the records of _data that have it; addIndex for a field that has an
\* index changes neither the definitions nor the indexes.
C38_AddIndexAllOrNothing ==
    [][(loaded /\ <<indexDefs, indexes>>' # <<indexDefs, indexes>> /\ data' = data
          /\ calls' = calls) =>
          /\ Len(indexDefs') = Len(indexDefs) + 1
          /\ LET f == indexDefs'[Len(indexDefs')].field
             IN  /\ f \notin DefFields(indexDefs)
                 /\ \A k \in DOMAIN data' : getByPath(data'[k], f) # Undef =>
                       /\ MapHas(indexes'[f], getByPath(data'[k], f))
                       /\ SetHas(indexes'[f][getByPath(data'[k], f)], data'[k].id)]_vars

C38_Witness ==
    /\ loaded /\ Len(data) = 2 /\ calls = <<>>
    /\ \E k \in DOMAIN indexDefs : indexDefs[k].field = "a" /\ indexDefs[k].unique
    /\ getByPath(data[1], "a") = getByPath(data[2], "a") /\ getByPath(data[1], "a") # Undef

\* C39: what _persist writes depends on the field-to-value mappings alone:
\* every sequence of PersistInputs that has, place by place and at both
\* levels, the properties and values of _data is written as the same text,
\* whatever the order in which the properties were set; and a load of the
\* text written gives a sequence with the mappings of the one persisted.
C39_StableRoundTrip ==
    [][LET Sig(v) == [t |-> v.t, v |-> v.v,
                      m |-> {<<v.ps[j][1], v.ps[j][2].t, v.ps[j][2].v>> : j \in DOMAIN v.ps}]
           RecSig(r) == {<<r.ps[j][1], Sig(r.ps[j][2])>> : j \in DOMAIN r.ps}
           Same(x, y) == /\ Len(x) = Len(y)
                         /\ \A k \in DOMAIN x : RecSig(x[k]) = RecSig(y[k])
           Text(recs) == StringifyFrom(<< <<"", [t |-> "arr", v |-> 0, oid |-> 0,
                                                ps |-> [k \in DOMAIN recs |->
                                                          <<"", recs[k]>>]]>> >>,
                                       1, {}, FALSE).out
       IN  /\ file' # file =>
                \A other \in PersistInputs : Same(other, data') => Text(other) = file'.recs
           /\ (file' = file /\ data' # data) => Same(data', data)]_vars

C39_Witness ==
    /\ loaded /\ file.st = "full" /\ Len(data) = 2
    /\ \E k \in DOMAIN file.recs : file.recs[k] = "\"[Circular]\""

====
